---- MODULE Spec2Model ----
(***************************************************************************)
(* A model of copilot-ia: the disk cache with TTL (src/utils/cache.py),    *)
(* the keyword intent classifier and the dispatch of a request to the      *)
(* registered copilots (src/agents/coordinator.py, src/agents/base.py).    *)
(***************************************************************************)
EXTENDS Integers, Sequences, FiniteSets, TLC

VARIABLES
    files,        \* the cache directory: path -> text of the file
    enabled,      \* Cache.enabled
    default_ttl,  \* Cache.default_ttl
    now,          \* time.time()
    op,           \* the call that was made last, and what it returned
    setLog,       \* per key: the last set that stored it and the gets that returned
                  \* its value, if nothing else touched the key since
    message,      \* the request text, as the pieces it was typed in
    answered,     \* whether detect_intent has run on it
    detected,     \* what detect_intent returned for it
    copilots,     \* the keys of CopilotCoordinator.copilots: the registered types
    intents,      \* the argument of the select_copilots call that has returned
    available,    \* what that call returned, until the caller takes it
    request,      \* the CoordinatorRequest being processed, and by which method
    copilot_types, \* process/aprocess: the copilot types the request resolved to
    results_list, \* per entry of copilot_types: what its call produced so far
    completed,    \* the entries of copilot_types in the order their calls ended
    invoked,      \* per copilot type: how often the request has called it
    response,     \* the CoordinatorResponse returned for the request
    tcall,        \* the TokenCounter call being made: its arguments and result
    tokens,       \* encoder.encode(text) of that call
    start,        \* split_into_chunks: the loop's start
    chunks,       \* split_into_chunks: the chunks appended so far
    slices,       \* for each chunk, the tokens[start:end] it was decoded from
    disk,         \* the workspace of FileOperationsTool: path -> what is there
    fcall,        \* the read_file call that was made last, and how it ended
    pending,      \* for each concurrent caller of the cache, the call it is in
    base_url,     \* CopilotClient.base_url
    api_up,       \* whether the API answers at base_url
    exchange      \* the HTTP request made last and how it was answered

cacheVars == <<files, enabled, default_ttl, now, op, setLog>>
intentVars == <<message, answered, detected>>
selectVars == <<copilots, intents, available>>
dispatchVars == <<request, copilot_types, results_list, completed, invoked, response>>
coordVars == <<selectVars, dispatchVars>>
tokenVars == <<tcall, tokens, start, chunks, slices>>
fileVars == <<disk, fcall>>
raceVars == <<pending>>
clientVars == <<base_url, api_up, exchange>>
utilVars == <<tokenVars, fileVars, raceVars, clientVars>>
vars == <<files, enabled, default_ttl, now, op, setLog, message, answered, detected,
          copilots, intents, available,
          request, copilot_types, results_list, completed, invoked, response,
          tcall, tokens, start, chunks, slices, disk, fcall, pending,
          base_url, api_up, exchange>>

(***************************************************************************)
(* Bounds of the model.                                                    *)
(***************************************************************************)
MaxTime == 2
MaxHits == 1
MaxFragments == 3
MaxIntents == 2

(***************************************************************************)
(* Python values and JSON text.  A Python value is a tagged tuple; so is a *)
(* JSON document.  model_dump_json and json.loads convert between them.    *)
(***************************************************************************)
PyNone == <<"none">>
PyBool(b) == <<"bool", b>>
PyNum(n) == <<"num", n>>
PyStr(s) == <<"str", s>>
PyList(items) == <<"list", items>>
PyDict(pairs) == <<"dict", pairs>>
PyRaise == <<"raise">>

\* bool(v) of a Python value, as `x or y` and `if x and ...` evaluate it.
Truthy(v) ==
    CASE v[1] = "none" -> FALSE
      [] v[1] = "bool" -> v[2]
      [] v[1] = "num" -> v[2] # 0
      [] v[1] = "str" -> v[2] # ""
      [] OTHER -> Len(v[2]) > 0

RECURSIVE ToJson(_)
ToJson(v) ==
    CASE v[1] = "none" -> <<"null">>
      [] v[1] = "bool" -> <<"boolean", v[2]>>
      [] v[1] = "num" -> <<"number", v[2]>>
      [] v[1] = "str" -> <<"string", v[2]>>
      [] v[1] = "list" -> <<"array", [i \in 1..Len(v[2]) |-> ToJson(v[2][i])]>>
      [] v[1] = "dict" ->
            <<"object", [i \in 1..Len(v[2]) |-> <<v[2][i][1], ToJson(v[2][i][2])>>]>>

RECURSIVE FromJsonFlatLists(_)
FromJsonFlatLists(j) ==
    CASE j[1] = "null" -> PyNone
      [] j[1] = "boolean" -> PyBool(j[2])
      [] j[1] = "number" -> PyNum(j[2])
      [] j[1] = "string" -> PyStr(j[2])
      [] j[1] = "array" -> PyList(<<>>)
      [] j[1] = "object" ->
            PyDict([i \in 1..Len(j[2]) |-> <<j[2][i][1], FromJsonFlatLists(j[2][i][2])>>])

RECURSIVE FromJson(_)
FromJson(j) ==
    CASE j[1] = "null" -> PyNone
      [] j[1] = "boolean" -> PyBool(j[2])
      [] j[1] = "number" -> PyNum(j[2])
      [] j[1] = "string" -> PyStr(j[2])
      [] j[1] = "array" -> PyList([i \in 1..Len(j[2]) |-> FromJson(j[2][i])])
      [] j[1] = "object" ->
            PyDict([i \in 1..Len(j[2]) |-> <<j[2][i][1], FromJson(j[2][i][2])>>])

\* A file whose text is not JSON (a write that failed half way).
Garbage == <<"garbage">>
IsJson(text) == text[1] # "garbage"

Lookup(pairs, name) ==
    LET i == CHOOSE i \in 1..Len(pairs) : pairs[i][1] = name IN pairs[i][2]

\* CacheEntry.model_dump_json
ModelDumpJson(entry) ==
    <<"object",
      << <<"key", ToJson(PyStr(entry.key))>>,
         <<"value", ToJson(entry.value)>>,
         <<"created_at", ToJson(PyNum(entry.created_at))>>,
         <<"expires_at", ToJson(entry.expires_at)>>,
         <<"hit_count", ToJson(PyNum(entry.hit_count))>> >> >>

\* CacheEntry(**json.loads(text))
CacheEntry(text) ==
    LET data == FromJson(text)[2] IN
    [key |-> Lookup(data, "key")[2],
     value |-> Lookup(data, "value"),
     created_at |-> Lookup(data, "created_at")[2],
     expires_at |-> Lookup(data, "expires_at"),
     hit_count |-> Lookup(data, "hit_count")[2]]

(***************************************************************************)
(* Keys, values and paths.                                                 *)
(***************************************************************************)
Keys == {"k1", "k2"}

Values ==
    { PyStr("value"),
      PyDict(<< <<"list", PyList(<<PyNum(1), PyNum(2)>>)>>,
                <<"nested", PyDict(<< <<"a", PyNum(1)>> >>)>> >>) }

\* The ttl argument of set: omitted (None) or an integer.
Ttls == {PyNone, PyNum(-1), PyNum(0), PyNum(1)}
DefaultTtls == {2}

\* a hash that every key shares
get_key_hash_Colliding(key) == <<"3", "f", "a", "1">>

\* sha256(key).hexdigest()[:32], as hex digits: distinct keys, distinct hashes.
get_key_hash(key) ==
    CASE key = "k1" -> <<"3", "f", "a", "1">>
      [] key = "k2" -> <<"9", "c", "0", "b">>

get_cache_path(key) ==
    LET key_hash == get_key_hash(key) IN
    <<SubSeq(key_hash, 1, 2), key_hash, "json">>

Exists(fs, path) == path \in DOMAIN fs
Unlink(fs, path) == [q \in DOMAIN fs \ {path} |-> fs[q]]
WriteText(fs, path, text) ==
    [q \in DOMAIN fs \cup {path} |-> IF q = path THEN text ELSE fs[q]]
\* cache_dir.glob("*.json"): the files directly in cache_dir, none in a shard
Glob(fs) == {p \in DOMAIN fs : p[3] = "json" /\ Len(p[1]) = 0}

\* cache_dir.rglob("*.json")
Rglob(fs) == {p \in DOMAIN fs : p[3] = "json"}

(***************************************************************************)
(* Results of a call: the files it leaves, what it returns, the failure it *)
(* met (err) and whether that failure reached the caller (raised).         *)
(***************************************************************************)
Return(fs, v) == [files |-> fs, ret |-> v, err |-> "none", raised |-> FALSE]
Raise(fs, kind) == [files |-> fs, ret |-> PyRaise, err |-> kind, raised |-> TRUE]
TryNoExcept(r, v) == r

\* try: body / except Exception: return v
Try(r, v) == IF r.raised THEN [r EXCEPT !.ret = v, !.raised = FALSE] ELSE r

ExpiredAtBoundary(entry, t) == Truthy(entry.expires_at) /\ t >= entry.expires_at[2]

Expired(entry, t) == Truthy(entry.expires_at) /\ t > entry.expires_at[2]

(***************************************************************************)
(* The operations of Cache.  c is the Cache object with its directory:     *)
(* [files, enabled, default_ttl]; t is time.time(); fault is the file      *)
(* operation that fails during the call ("none": nothing fails).           *)
(***************************************************************************)
SetFaults == {"none", "open", "write"}
GetFaults == {"none", "stat", "read", "open", "write", "unlink"}
ExistsFaults == {"none", "stat", "read", "unlink"}
DeleteFaults == {"none", "stat", "unlink"}

Cache_delete_KeepsFile(c, key, fault) ==
    LET cache_path == get_cache_path(key) IN
    Try(IF fault = "stat" THEN Raise(c.files, "stat")
        ELSE IF Exists(c.files, cache_path)
        THEN Return(c.files, PyBool(TRUE))
        ELSE Return(c.files, PyBool(FALSE)),
        PyBool(FALSE))

Cache_delete(c, key, fault) ==
    LET cache_path == get_cache_path(key) IN
    Try(IF fault = "stat" THEN Raise(c.files, "stat")
        ELSE IF Exists(c.files, cache_path)
        THEN IF fault = "unlink" THEN Raise(c.files, "unlink")
             ELSE Return(Unlink(c.files, cache_path), PyBool(TRUE))
        ELSE Return(c.files, PyBool(FALSE)),
        PyBool(FALSE))

Cache_set_IgnoresEnabled(c, key, value, ttl_arg, t, fault) ==
    LET ttl == IF Truthy(ttl_arg) THEN ttl_arg[2] ELSE c.default_ttl
        entry == [key |-> key, value |-> value, created_at |-> t,
                  expires_at |-> IF ttl > 0 THEN PyNum(t + ttl) ELSE PyNone,
                  hit_count |-> 0]
    IN Return(WriteText(c.files, get_cache_path(key), ModelDumpJson(entry)), PyBool(TRUE))

Cache_set_ZeroTtlKept(c, key, value, ttl_arg, t, fault) ==
    IF ~c.enabled THEN Return(c.files, PyBool(FALSE))
    ELSE
        LET ttl == IF ttl_arg # PyNone THEN ttl_arg[2] ELSE c.default_ttl
            entry == [key |-> key, value |-> value, created_at |-> t,
                      expires_at |-> IF ttl > 0 THEN PyNum(t + ttl) ELSE PyNone,
                      hit_count |-> 0]
        IN Return(WriteText(c.files, get_cache_path(key), ModelDumpJson(entry)),
                  PyBool(TRUE))

Cache_set(c, key, value, ttl_arg, t, fault) ==
    IF ~c.enabled THEN Return(c.files, PyBool(FALSE))
    ELSE
        LET ttl == IF Truthy(ttl_arg) THEN ttl_arg[2] ELSE c.default_ttl
            entry == [key |-> key, value |-> value, created_at |-> t,
                      expires_at |-> IF ttl > 0 THEN PyNum(t + ttl) ELSE PyNone,
                      hit_count |-> 0]
            cache_path == get_cache_path(key)
        IN Try(IF fault = "open" THEN Raise(c.files, "open")
               ELSE IF fault = "write"
               THEN Raise(WriteText(c.files, cache_path, Garbage), "write")
               ELSE Return(WriteText(c.files, cache_path, ModelDumpJson(entry)),
                           PyBool(TRUE)),
               PyBool(FALSE))

Cache_get_NoHitCount(c, key, t, fault) ==
    IF ~c.enabled THEN Return(c.files, PyNone)
    ELSE
        LET cache_path == get_cache_path(key) IN
        IF ~Exists(c.files, cache_path) THEN Return(c.files, PyNone)
        ELSE
            LET entry == CacheEntry(c.files[cache_path]) IN
            IF Expired(entry, t)
            THEN [Cache_delete(c, key, fault) EXCEPT !.ret = PyNone]
            ELSE Return(c.files, entry.value)

Cache_get(c, key, t, fault) ==
    IF ~c.enabled THEN Return(c.files, PyNone)
    ELSE
        LET cache_path == get_cache_path(key) IN
        IF fault = "stat" THEN Raise(c.files, "stat")
        ELSE IF ~Exists(c.files, cache_path) THEN Return(c.files, PyNone)
        ELSE
            Try(IF fault = "read" THEN Raise(c.files, "read")
                ELSE IF ~IsJson(c.files[cache_path]) THEN Raise(c.files, "parse")
                ELSE
                    LET entry == CacheEntry(c.files[cache_path]) IN
                    IF Expired(entry, t)
                    THEN [Cache_delete(c, key, fault) EXCEPT !.ret = PyNone]
                    ELSE
                        LET hit == [entry EXCEPT !.hit_count = @ + 1] IN
                        IF fault = "open" THEN Raise(c.files, "open")
                        ELSE IF fault = "write"
                        THEN Raise(WriteText(c.files, cache_path, Garbage), "write")
                        ELSE Return(WriteText(c.files, cache_path, ModelDumpJson(hit)),
                                    entry.value),
                PyNone)

Cache_exists_NoPurge(c, key, t, fault) ==
    IF ~c.enabled THEN Return(c.files, PyBool(FALSE))
    ELSE
        LET cache_path == get_cache_path(key) IN
        IF ~Exists(c.files, cache_path) THEN Return(c.files, PyBool(FALSE))
        ELSE Return(c.files, PyBool(~Expired(CacheEntry(c.files[cache_path]), t)))

Cache_exists(c, key, t, fault) ==
    IF ~c.enabled THEN Return(c.files, PyBool(FALSE))
    ELSE
        LET cache_path == get_cache_path(key) IN
        IF fault = "stat" THEN Raise(c.files, "stat")
        ELSE IF ~Exists(c.files, cache_path) THEN Return(c.files, PyBool(FALSE))
        ELSE
            Try(IF fault = "read" THEN Raise(c.files, "read")
                ELSE IF ~IsJson(c.files[cache_path]) THEN Raise(c.files, "parse")
                ELSE
                    LET entry == CacheEntry(c.files[cache_path]) IN
                    IF Expired(entry, t)
                    THEN [Cache_delete(c, key, fault) EXCEPT !.ret = PyBool(FALSE)]
                    ELSE Return(c.files, PyBool(TRUE)),
                PyBool(FALSE))

\* failing: the files whose unlink raises; the loop passes over them.
Cache_clear(c, failing) ==
    LET removed == Rglob(c.files) \ failing IN
    [files |-> [q \in DOMAIN c.files \ removed |-> c.files[q]],
     ret |-> PyNum(Cardinality(removed)),
     err |-> IF Rglob(c.files) \cap failing = {} THEN "none" ELSE "unlink",
     raised |-> FALSE]

Cache_clear_expired_IgnoresNow(c, t, failing) ==
    LET removed == {p \in Rglob(c.files) :
                        Truthy(CacheEntry(c.files[p]).expires_at)}
    IN
    [files |-> [q \in DOMAIN c.files \ removed |-> c.files[q]],
     ret |-> PyNum(Cardinality(removed)),
     err |-> "none",
     raised |-> FALSE]

\* failing: the files whose read or unlink raises; the loop passes over them.
Cache_clear_expired(c, t, failing) ==
    LET removed == {p \in Rglob(c.files) \ failing :
                        IsJson(c.files[p]) /\ Expired(CacheEntry(c.files[p]), t)}
    IN
    [files |-> [q \in DOMAIN c.files \ removed |-> c.files[q]],
     ret |-> PyNum(Cardinality(removed)),
     err |-> IF Rglob(c.files) \cap failing = {} THEN "none" ELSE "io",
     raised |-> FALSE]

(***************************************************************************)
(* The cache as a state machine: one caller, one call at a time.           *)
(***************************************************************************)
cache == [files |-> files, enabled |-> enabled, default_ttl |-> default_ttl]

Call(name, key, r) ==
    [name |-> name, key |-> key, ret |-> r.ret, err |-> r.err, raised |-> r.raised]

NoCall == [name |-> "init", key |-> "", ret |-> PyNone, err |-> "none", raised |-> FALSE]

\* The hit counts stored in the directory, added up.
RECURSIVE TotalHits(_, _)
TotalHits(fs, paths) ==
    IF paths = {} THEN 0
    ELSE LET p == CHOOSE q \in paths : TRUE IN
         (IF IsJson(fs[p]) THEN CacheEntry(fs[p]).hit_count ELSE 0)
            + TotalHits(fs, paths \ {p})

HitCountWithin(fs) == TotalHits(fs, DOMAIN fs) <= MaxHits

CacheInit ==
    /\ files = <<>>
    /\ enabled \in BOOLEAN
    /\ default_ttl \in DefaultTtls
    /\ now = 0
    /\ op = NoCall
    /\ setLog = [k \in Keys |-> <<>>]

\* Cache(cache_dir, default_ttl, enabled) over the directory as it stands.
Construct ==
    \E e \in BOOLEAN, d \in DefaultTtls :
        /\ enabled' = e
        /\ default_ttl' = d
        /\ op' = NoCall
        /\ UNCHANGED <<files, now, setLog, message, answered, detected, coordVars, utilVars>>

Tick ==
    /\ now < MaxTime
    /\ now' = now + 1
    /\ op' = [NoCall EXCEPT !.name = "tick"]
    /\ UNCHANGED <<files, enabled, default_ttl, setLog, message, answered, detected, coordVars, utilVars>>

\* The calls below take the keys the caller uses and the file operations that
\* may fail in this run.
Faults(of, faulty) == IF faulty THEN of ELSE {"none"}

Set(ks, faulty) ==
    \E k \in ks, v \in Values, ttl \in Ttls, fault \in Faults(SetFaults, faulty) :
        LET r == Cache_set(cache, k, v, ttl, now, fault) IN
        /\ files' = r.files
        /\ op' = Call("set", k, r)
        /\ setLog' = [setLog EXCEPT ![k] =
                        IF r.ret = PyBool(TRUE)
                        THEN <<[time |-> now, ttl |-> ttl, value |-> v, gets |-> 0,
                                expires |-> CacheEntry(r.files[get_cache_path(k)]).expires_at]>>
                        ELSE <<>>]
        /\ UNCHANGED <<enabled, default_ttl, now, message, answered, detected, coordVars, utilVars>>

Get(ks, faulty) ==
    \E k \in ks, fault \in Faults(GetFaults, faulty) :
        LET r == Cache_get(cache, k, now, fault) IN
        /\ HitCountWithin(r.files)
        /\ files' = r.files
        /\ op' = Call("get", k, r)
        /\ setLog' = [setLog EXCEPT ![k] =
                        IF r.err # "none" THEN <<>>
                        ELSE IF r.ret # PyNone /\ @ # <<>>
                        THEN <<[@[1] EXCEPT !.gets = @ + 1]>>
                        ELSE @]
        /\ UNCHANGED <<enabled, default_ttl, now, message, answered, detected, coordVars, utilVars>>

ExistsCall(ks, faulty) ==
    \E k \in ks, fault \in Faults(ExistsFaults, faulty) :
        LET r == Cache_exists(cache, k, now, fault) IN
        /\ files' = r.files
        /\ op' = Call("exists", k, r)
        /\ setLog' = [setLog EXCEPT ![k] = IF r.err = "none" THEN @ ELSE <<>>]
        /\ UNCHANGED <<enabled, default_ttl, now, message, answered, detected, coordVars, utilVars>>

Delete(ks, faulty) ==
    \E k \in ks, fault \in Faults(DeleteFaults, faulty) :
        LET r == Cache_delete(cache, k, fault) IN
        /\ files' = r.files
        /\ op' = Call("delete", k, r)
        /\ setLog' = [setLog EXCEPT ![k] = <<>>]
        /\ UNCHANGED <<enabled, default_ttl, now, message, answered, detected, coordVars, utilVars>>

Clear(faulty) ==
    \E failing \in IF faulty THEN SUBSET DOMAIN files ELSE {{}} :
        LET r == Cache_clear(cache, failing) IN
        /\ files' = r.files
        /\ op' = Call("clear", "", r)
        /\ setLog' = [k \in Keys |-> <<>>]
        /\ UNCHANGED <<enabled, default_ttl, now, message, answered, detected, coordVars, utilVars>>

ClearExpired(faulty) ==
    \E failing \in IF faulty THEN SUBSET DOMAIN files ELSE {{}} :
        LET r == Cache_clear_expired(cache, now, failing) IN
        /\ files' = r.files
        /\ op' = Call("clear_expired", "", r)
        /\ UNCHANGED <<enabled, default_ttl, now, setLog, message, answered, detected, coordVars, utilVars>>

IntentIdle ==
    /\ message = <<>>
    /\ answered = FALSE
    /\ detected = <<>>

\* No select_copilots call has returned, no request is being processed.
NotCalled == <<"not called">>
NoRequest == [method |-> "none"]
NoResponse == [returned |-> FALSE]
CoordIdle ==
    /\ copilots = {}
    /\ intents = <<>>
    /\ available = NotCalled
    /\ request = NoRequest
    /\ copilot_types = <<>>
    /\ results_list = <<>>
    /\ completed = <<>>
    /\ invoked = <<>>
    /\ response = NoResponse

\* No TokenCounter call is being made; the workspace is empty and no file
\* was read.
NoTokenCall == [name |-> "none", done |-> FALSE]
NoFileCall == [name |-> "none"]
Callers == {"c1", "c2"}
Idle == [pc |-> "idle"]
NoExchange == [method |-> "none"]
UtilIdle ==
    /\ tcall = NoTokenCall
    /\ tokens = <<>>
    /\ start = 0
    /\ chunks = <<>>
    /\ slices = <<>>
    /\ disk = <<>>
    /\ fcall = NoFileCall
    /\ pending = [c \in Callers |-> Idle]
    /\ base_url = <<"http://localhost:8000">>
    /\ api_up = TRUE
    /\ exchange = NoExchange

Init ==
    /\ CacheInit
    /\ IntentIdle
    /\ CoordIdle
    /\ UtilIdle

\* One caller, every file operation succeeding.
Next ==
    \/ Tick
    \/ Set(Keys, FALSE)
    \/ Get(Keys, FALSE)
    \/ ExistsCall(Keys, FALSE)
    \/ Delete(Keys, FALSE)
    \/ Clear(FALSE)
    \/ ClearExpired(FALSE)

Spec == Init /\ [][Next]_vars

\* One caller on one key, any file operation of a call failing.
FaultKeys == {"k1"}

NextFault ==
    \/ Construct
    \/ Tick
    \/ Set(FaultKeys, TRUE)
    \/ Get(FaultKeys, TRUE)
    \/ ExistsCall(FaultKeys, TRUE)
    \/ Delete(FaultKeys, TRUE)
    \/ Clear(TRUE)
    \/ ClearExpired(TRUE)

SpecFault == Init /\ [][NextFault]_vars

\* Cache objects made one after another over the same directory, enabled or
\* not, every file operation succeeding.
NextReopen ==
    \/ Construct
    \/ Set(Keys, FALSE)
    \/ Get(Keys, FALSE)
    \/ ExistsCall(Keys, FALSE)
    \/ Delete(Keys, FALSE)
    \/ Clear(FALSE)

SpecReopen == Init /\ [][NextReopen]_vars

\* @cache_response(cache, key_prefix="review", ttl=1) def review_code(code):
\* the arguments of the calls, what review_code returns when it is run, and
\* ":".join(key_parts), "k1" standing for "review:review_code:x" and "k2" for
\* "review:review_code:y".
WrappedArgs == {<<"x">>, <<"y">>}
WrappedResults == Values \cup {PyNone}
WrappedTtl == PyNum(1)
JoinKey(key_parts) ==
    CASE key_parts = <<"review", "review_code", "x">> -> "k1"
      [] key_parts = <<"review", "review_code", "y">> -> "k2"

wrapper_NoneIsHit(c, key_prefix, name, args, result, ttl, t) ==
    LET key == JoinKey(<<key_prefix, name>> \o args)
        got == Cache_get(c, key, t, "none")
    IN IF Exists(c.files, get_cache_path(key)) /\ c.enabled
       THEN [files |-> got.files, ret |-> got.ret, invoked |-> FALSE, key |-> key]
       ELSE [files |-> Cache_set([c EXCEPT !.files = got.files],
                                 key, result, ttl, t, "none").files,
             ret |-> result, invoked |-> TRUE, key |-> key]

\* wrapper(*args): cache.get(key); the cached value when it is not None, and
\* otherwise func(*args), cache.set(key, result, ttl=ttl) and the result
wrapper(c, key_prefix, name, args, result, ttl, t) ==
    LET key == JoinKey(<<key_prefix, name>> \o args)
        cached == Cache_get(c, key, t, "none")
    IN IF cached.ret # PyNone
       THEN [files |-> cached.files, ret |-> cached.ret, invoked |-> FALSE, key |-> key]
       ELSE [files |-> Cache_set([c EXCEPT !.files = cached.files],
                                 key, result, ttl, t, "none").files,
             ret |-> result, invoked |-> TRUE, key |-> key]

\* A call of the wrapped function.  op keeps whether review_code was run and
\* what the last run for these arguments had returned (prior); setLog keeps
\* the last run for the key since the last delete or clear.
Wrapped ==
    \E args \in WrappedArgs, result \in WrappedResults :
        LET w == wrapper(cache, "review", "review_code", args, result, WrappedTtl, now) IN
        /\ HitCountWithin(w.files)
        /\ files' = w.files
        /\ op' = [name |-> "wrapper", key |-> w.key, ret |-> w.ret, err |-> "none",
                  raised |-> FALSE, invoked |-> w.invoked, prior |-> setLog[w.key]]
        /\ setLog' = [setLog EXCEPT ![w.key] =
                        IF w.invoked
                        THEN <<[time |-> now, ttl |-> WrappedTtl, value |-> result,
                                gets |-> 0, expires |-> PyNum(now + WrappedTtl[2])]>>
                        ELSE @]
        /\ UNCHANGED <<enabled, default_ttl, now, message, answered, detected, coordVars, utilVars>>

NextWrapped ==
    \/ Tick
    \/ Wrapped
    \/ Delete(Keys, FALSE)
    \/ Clear(FALSE)

SpecWrapped == Init /\ [][NextWrapped]_vars

(***************************************************************************)
(* Two callers on one key with no lock.  A call is the sequence of its     *)
(* file operations, and the file operations of the two callers interleave: *)
(* get and exists read the file and then unlink it (expired) or, get only, *)
(* write it back with the hit counted; set writes the file once.           *)
(***************************************************************************)
RaceKey == "k1"
RaceTtls == {PyNum(1), PyNum(-1)}
RaceCall(c, name, step, ret) ==
    [name |-> name, key |-> RaceKey, ret |-> ret, err |-> "none", raised |-> FALSE,
     caller |-> c, step |-> step]
\* a write or unlink by c falls between the read and the write or unlink of
\* the others
Overtake(c) ==
    [d \in Callers |->
        IF d # c /\ pending[d].pc # "idle"
        THEN [pending[d] EXCEPT !.overtaken = TRUE] ELSE pending[d]]

\* set(key, value, ttl): one write_text
RaceSet(c) ==
    /\ pending[c].pc = "idle"
    /\ \E v \in Values, ttl \in RaceTtls :
        LET r == Cache_set(cache, RaceKey, v, ttl, now, "none") IN
        /\ files' = r.files
        /\ op' = RaceCall(c, "set", "write", r.ret)
    /\ pending' = Overtake(c)
    /\ UNCHANGED <<enabled, default_ttl, now, setLog, intentVars, coordVars,
                   tokenVars, fileVars, clientVars>>

\* the same with the clock left out of the test: any entry that has an
\* expires_at goes
RaceRead_NoClock(c, name) ==
    /\ pending[c].pc = "idle"
    /\ LET cache_path == get_cache_path(RaceKey) IN
       IF ~Exists(files, cache_path)
       THEN /\ op' = RaceCall(c, name, "return",
                              IF name = "get" THEN PyNone ELSE PyBool(FALSE))
            /\ pending' = pending
       ELSE LET entry == CacheEntry(files[cache_path]) IN
            IF Truthy(entry.expires_at)
            THEN /\ op' = RaceCall(c, name, "read", PyRaise)
                 /\ pending' = [pending EXCEPT ![c] =
                        [pc |-> "delete", name |-> name, entry |-> entry,
                         overtaken |-> FALSE]]
            ELSE IF name = "get"
            THEN /\ op' = RaceCall(c, name, "read", PyRaise)
                 /\ pending' = [pending EXCEPT ![c] =
                        [pc |-> "write", name |-> name, entry |-> entry,
                         overtaken |-> FALSE]]
            ELSE /\ op' = RaceCall(c, name, "return", PyBool(TRUE))
                 /\ pending' = pending
    /\ UNCHANGED <<files, enabled, default_ttl, now, setLog, intentVars, coordVars,
                   tokenVars, fileVars, clientVars>>

\* get(key) and exists(key) up to the test of expires_at: the file is read,
\* and what comes next is decided on the entry that was read
RaceRead(c, name) ==
    /\ pending[c].pc = "idle"
    /\ LET cache_path == get_cache_path(RaceKey) IN
       IF ~Exists(files, cache_path)
       THEN /\ op' = RaceCall(c, name, "return",
                              IF name = "get" THEN PyNone ELSE PyBool(FALSE))
            /\ pending' = pending
       ELSE LET entry == CacheEntry(files[cache_path]) IN
            IF Expired(entry, now)
            THEN /\ op' = RaceCall(c, name, "read", PyRaise)
                 /\ pending' = [pending EXCEPT ![c] =
                        [pc |-> "delete", name |-> name, entry |-> entry,
                         overtaken |-> FALSE]]
            ELSE IF name = "get"
            THEN /\ op' = RaceCall(c, name, "read", PyRaise)
                 /\ pending' = [pending EXCEPT ![c] =
                        [pc |-> "write", name |-> name, entry |-> entry,
                         overtaken |-> FALSE]]
            ELSE /\ op' = RaceCall(c, name, "return", PyBool(TRUE))
                 /\ pending' = pending
    /\ UNCHANGED <<files, enabled, default_ttl, now, setLog, intentVars, coordVars,
                   tokenVars, fileVars, clientVars>>

\* self.delete(key) of a get or exists that read an expired entry
RaceDelete(c) ==
    /\ pending[c].pc = "delete"
    /\ files' = Cache_delete(cache, RaceKey, "none").files
    /\ op' = RaceCall(c, pending[c].name, "unlink",
                      IF pending[c].name = "get" THEN PyNone ELSE PyBool(FALSE))
    /\ pending' = [Overtake(c) EXCEPT ![c] = Idle]
    /\ UNCHANGED <<enabled, default_ttl, now, setLog, intentVars, coordVars,
                   tokenVars, fileVars, clientVars>>

\* entry.hit_count += 1; cache_path.write_text(...); return entry.value
RaceWrite(c) ==
    /\ pending[c].pc = "write"
    /\ LET hit == [pending[c].entry EXCEPT !.hit_count = @ + 1] IN
       /\ hit.hit_count <= MaxHits
       /\ files' = WriteText(files, get_cache_path(RaceKey), ModelDumpJson(hit))
       /\ op' = RaceCall(c, "get", "write", hit.value)
    /\ pending' = [Overtake(c) EXCEPT ![c] = Idle]
    /\ UNCHANGED <<enabled, default_ttl, now, setLog, intentVars, coordVars,
                   tokenVars, fileVars, clientVars>>

RaceInit == Init /\ enabled

RaceNext ==
    \/ Tick
    \/ \E c \in Callers : RaceSet(c)
    \/ \E c \in Callers : RaceRead(c, "get")
    \/ \E c \in Callers : RaceRead(c, "exists")
    \/ \E c \in Callers : RaceDelete(c)
    \/ \E c \in Callers : RaceWrite(c)

SpecRace == RaceInit /\ [][RaceNext]_vars

(***************************************************************************)
(* The keyword intent classifier.  A text is a sequence of characters; the *)
(* accented letters are written out ("c_cedilla", "o_acute").              *)
(***************************************************************************)
UpperCase ==
    <<"A", "B", "C", "D", "E", "F", "G", "H", "I", "J", "K", "L", "M", "N", "O", "P", "Q", "R", "S", "T", "U", "V", "W", "X", "Y", "Z", "C_CEDILLA", "O_ACUTE">>
LowerCase ==
    <<"a", "b", "c", "d", "e", "f", "g", "h", "i", "j", "k", "l", "m", "n", "o", "p", "q", "r", "s", "t", "u", "v", "w", "x", "y", "z", "c_cedilla", "o_acute">>

\* str.lower(), a character at a time
LowerChar(ch) ==
    IF \E i \in 1..Len(UpperCase) : UpperCase[i] = ch
    THEN LowerCase[CHOOSE i \in 1..Len(UpperCase) : UpperCase[i] = ch]
    ELSE ch
lower(text) == [i \in 1..Len(text) |-> LowerChar(text[i])]

\* keyword in message_lower
In(keyword, text) ==
    \E i \in 0..(Len(text) - Len(keyword)) :
        SubSeq(text, i + 1, i + Len(keyword)) = keyword

\* CopilotCoordinator.INTENT_KEYWORDS, in the order of the dict
INTENT_KEYWORDS ==
    <<<<"REVIEW",
        <<<<"r", "e", "v", "i", "e", "w">>,
          <<"r", "e", "v", "i", "s", "a", "r">>,
          <<"a", "n", "a", "l", "i", "s", "a", "r", " ", "c", "o_acute", "d", "i", "g", "o">>,
          <<"c", "o", "d", "e", " ", "r", "e", "v", "i", "e", "w">>,
          <<"v", "e", "r", "i", "f", "i", "c", "a", "r">>>> >>,
      <<"DOCUMENT",
        <<<<"d", "o", "c", "u", "m", "e", "n", "t">>,
          <<"d", "o", "c", "u", "m", "e", "n", "t", "a", "r">>,
          <<"d", "o", "c", "s", "t", "r", "i", "n", "g">>,
          <<"r", "e", "a", "d", "m", "e">>,
          <<"d", "o", "c", "s">>>> >>,
      <<"TEST",
        <<<<"t", "e", "s", "t">>,
          <<"t", "e", "s", "t", "a", "r">>,
          <<"t", "e", "s", "t", "e">>,
          <<"u", "n", "i", "t", " ", "t", "e", "s", "t">>,
          <<"t", "e", "s", "t", "e", "s">>>> >>,
      <<"DEBUG",
        <<<<"d", "e", "b", "u", "g">>,
          <<"b", "u", "g">>,
          <<"e", "r", "r", "o">>,
          <<"e", "r", "r", "o", "r">>,
          <<"f", "i", "x">>,
          <<"c", "o", "r", "r", "i", "g", "i", "r">>,
          <<"p", "r", "o", "b", "l", "e", "m", "a">>>> >>,
      <<"REFACTOR",
        <<<<"r", "e", "f", "a", "c", "t", "o", "r">>,
          <<"r", "e", "f", "a", "t", "o", "r", "a", "r">>,
          <<"m", "e", "l", "h", "o", "r", "a", "r">>,
          <<"c", "l", "e", "a", "n">>,
          <<"l", "i", "m", "p", "a", "r">>>> >>,
      <<"ANALYZE_ARCHITECTURE",
        <<<<"a", "r", "c", "h", "i", "t", "e", "c", "t", "u", "r", "e">>,
          <<"a", "r", "q", "u", "i", "t", "e", "t", "u", "r", "a">>,
          <<"d", "e", "s", "i", "g", "n">>,
          <<"e", "s", "t", "r", "u", "t", "u", "r", "a">>>> >>,
      <<"SECURITY_SCAN",
        <<<<"s", "e", "c", "u", "r", "i", "t", "y">>,
          <<"s", "e", "g", "u", "r", "a", "n", "c_cedilla", "a">>,
          <<"v", "u", "l", "n", "e", "r", "a", "b">>,
          <<"o", "w", "a", "s", "p">>,
          <<"i", "n", "j", "e", "c", "t", "i", "o", "n">>>> >>,
      <<"FULL_ANALYSIS",
        <<<<"f", "u", "l", "l">>,
          <<"c", "o", "m", "p", "l", "e", "t", "o">>,
          <<"c", "o", "m", "p", "l", "e", "t", "a">>,
          <<"t", "u", "d", "o">>,
          <<"a", "l", "l">>>> >> >>

\* for keyword in keywords: if keyword in message_lower: append(intent); break
RECURSIVE ScanKeywords(_, _, _, _)
ScanKeywords(intent, keywords, i, message_lower) ==
    IF i > Len(keywords) THEN <<>>
    ELSE IF In(keywords[i], message_lower) THEN <<intent>>
    ELSE ScanKeywords(intent, keywords, i + 1, message_lower)

\* for intent, keywords in self.INTENT_KEYWORDS.items()
RECURSIVE ScanIntents(_, _)
ScanIntents(j, message_lower) ==
    IF j > Len(INTENT_KEYWORDS) THEN <<>>
    ELSE ScanKeywords(INTENT_KEYWORDS[j][1], INTENT_KEYWORDS[j][2], 1, message_lower)
            \o ScanIntents(j + 1, message_lower)

detect_intent_FirstMatch(text) ==
    LET detected_intents == ScanIntents(1, lower(text)) IN
    IF detected_intents = <<>> THEN <<"REVIEW">> ELSE <<Head(detected_intents)>>

detect_intent_NoFallback(text) == ScanIntents(1, lower(text))

detect_intent_CaseSensitive(text) ==
    LET detected_intents == ScanIntents(1, text) IN
    IF detected_intents = <<>> THEN <<"REVIEW">> ELSE detected_intents

detect_intent(text) ==
    LET message_lower == lower(text)
        detected_intents == ScanIntents(1, message_lower)
    IN IF detected_intents = <<>> THEN <<"REVIEW">> ELSE detected_intents

\* The pieces a request is typed from.
Fragments ==
    {<<"R", "e", "v", "i", "s", "a", "r">>,
     <<"d", "e">>,
     <<"b", "u", "g">>,
     <<"t", "e", "s", "t">>,
     <<"e">>,
     <<"S", "E", "G", "U", "R", "A", "N", "C_CEDILLA", "A">>,
     <<" ">>,
     <<"x">>,
     <<"d", "o", "c", "s">>}

RECURSIVE Flatten(_)
Flatten(pieces) == IF pieces = <<>> THEN <<>> ELSE Head(pieces) \o Flatten(Tail(pieces))

CacheIdle ==
    /\ files = <<>>
    /\ enabled = TRUE
    /\ default_ttl \in DefaultTtls
    /\ now = 0
    /\ op = NoCall
    /\ setLog = [k \in Keys |-> <<>>]

IntentInit ==
    /\ IntentIdle
    /\ CacheIdle
    /\ CoordIdle
    /\ UtilIdle

Type ==
    \E f \in Fragments :
        /\ Len(message) < MaxFragments
        /\ message' = Append(message, f)
        /\ answered' = FALSE
        /\ detected' = <<>>
        /\ UNCHANGED <<cacheVars, coordVars, utilVars>>

Detect ==
    /\ ~answered
    /\ answered' = TRUE
    /\ detected' = detect_intent(Flatten(message))
    /\ UNCHANGED <<message, cacheVars, coordVars, utilVars>>

NewMessage ==
    /\ answered
    /\ message' = <<>>
    /\ answered' = FALSE
    /\ detected' = <<>>
    /\ UNCHANGED <<cacheVars, coordVars, utilVars>>

IntentNext ==
    \/ Type
    \/ Detect
    \/ NewMessage

SpecIntent == IntentInit /\ [][IntentNext]_vars

(***************************************************************************)
(* Copilot selection: register_copilot and select_copilots.                *)
(***************************************************************************)
CopilotType ==
    {"code_reviewer", "documentation", "testing", "debug", "refactoring",
     "architecture", "security"}

TaskIntent ==
    {"REVIEW", "DOCUMENT", "TEST", "DEBUG", "REFACTOR", "ANALYZE_ARCHITECTURE",
     "SECURITY_SCAN", "FULL_ANALYSIS"}

\* CopilotCoordinator.INTENT_COPILOT_MAP
INTENT_COPILOT_MAP ==
    [REVIEW |-> <<"code_reviewer">>,
     DOCUMENT |-> <<"documentation">>,
     TEST |-> <<"testing">>,
     DEBUG |-> <<"debug">>,
     REFACTOR |-> <<"refactoring">>,
     ANALYZE_ARCHITECTURE |-> <<"architecture">>,
     SECURITY_SCAN |-> <<"security">>,
     FULL_ANALYSIS |-> <<"code_reviewer", "security", "architecture">>]

Range(seq) == {seq[i] : i \in DOMAIN seq}

\* The lists a loop over the set S can produce: every member once, in any of
\* the orders the hashing of the members may give.
Orderings(S) == {seq \in [1..Cardinality(S) -> S] : Range(seq) = S}

\* for intent in intents: if intent in MAP: copilot_types.update(MAP[intent])
RECURSIVE UpdateAll(_, _, _)
UpdateAll(copilot_types_set, intent_list, i) ==
    IF i > Len(intent_list) THEN copilot_types_set
    ELSE UpdateAll(IF intent_list[i] \in DOMAIN INTENT_COPILOT_MAP
                   THEN copilot_types_set \cup Range(INTENT_COPILOT_MAP[intent_list[i]])
                   ELSE copilot_types_set,
                   intent_list, i + 1)

select_copilots_Unfiltered(self_copilots, intent_list) ==
    Orderings(UpdateAll({}, intent_list, 1))

\* The lists select_copilots(intents) can return on a coordinator whose
\* registered types are self_copilots.
select_copilots(self_copilots, intent_list) ==
    LET selected == UpdateAll({}, intent_list, 1)
    IN Orderings({ct \in selected : ct \in self_copilots})

\* The intent lists select_copilots is called with.
IntentLists == UNION {[1..n -> TaskIntent] : n \in 0..MaxIntents}

\* "Analise este código para bugs e vulnerabilidades de segurança"
ExampleMessage ==
    <<"A", "n", "a", "l", "i", "s", "e", " ", "e", "s", "t", "e", " ",
      "c", "o_acute", "d", "i", "g", "o", " ", "p", "a", "r", "a", " ",
      "b", "u", "g", "s", " ", "e", " ",
      "v", "u", "l", "n", "e", "r", "a", "b", "i", "l", "i", "d", "a", "d", "e", "s", " ",
      "d", "e", " ", "s", "e", "g", "u", "r", "a", "n", "c_cedilla", "a">>

\* "Revisar tudo"
ReviewAllMessage == <<"R", "e", "v", "i", "s", "a", "r", " ", "t", "u", "d", "o">>

\* The message of examples/coordinator_example.py:
\* "Analise este código de autenticação para bugs e vulnerabilidades de segurança"
ExampleScriptMessage ==
    SubSeq(ExampleMessage, 1, 20)
        \o <<"d", "e", " ", "a", "u", "t", "e", "n", "t", "i", "c", "a", "c_cedilla",
             "a_tilde", "o", " ">>
        \o SubSeq(ExampleMessage, 21, Len(ExampleMessage))

Messages == {ExampleMessage, ExampleScriptMessage, ReviewAllMessage}

\* register_copilot(copilot, copilot_type); calls are made one after another,
\* so none is made while a returned list waits to be taken or a request runs.
RegisterCopilot(types) ==
    /\ available = NotCalled
    /\ request = NoRequest
    /\ \E copilot_type \in types :
        /\ copilots' = copilots \cup {copilot_type}
        /\ UNCHANGED <<intents, available, dispatchVars, intentVars, cacheVars, utilVars>>

SelectCopilots ==
    /\ available = NotCalled
    /\ request = NoRequest
    /\ \E intent_list \in IntentLists :
        \E result \in select_copilots(copilots, intent_list) :
            /\ intents' = intent_list
            /\ available' = result
            /\ UNCHANGED <<copilots, dispatchVars, intentVars, cacheVars, utilVars>>

\* intents = detect_intent(request.message); select_copilots(intents)
SelectForMessage ==
    /\ available = NotCalled
    /\ request = NoRequest
    /\ \E m \in Messages :
        LET detected_intents == detect_intent(m) IN
        \E result \in select_copilots(copilots, detected_intents) :
            /\ message' = <<m>>
            /\ answered' = TRUE
            /\ detected' = detected_intents
            /\ intents' = detected_intents
            /\ available' = result
            /\ UNCHANGED <<copilots, dispatchVars, cacheVars, utilVars>>

\* The caller takes the list.
TakeSelection ==
    /\ available # NotCalled
    /\ available' = NotCalled
    /\ intents' = <<>>
    /\ message' = <<>>
    /\ answered' = FALSE
    /\ detected' = <<>>
    /\ UNCHANGED <<copilots, dispatchVars, cacheVars, utilVars>>

SelectNext ==
    \/ RegisterCopilot(CopilotType)
    \/ SelectCopilots
    \/ SelectForMessage
    \/ TakeSelection

SpecSelect == IntentInit /\ [][SelectNext]_vars

(***************************************************************************)
(* The base agent: BaseCopilotAgent.run and arun around the LLM client.    *)
(***************************************************************************)
\* How a call ends for its caller: with a value, or with an exception and
\* its text.
Returned(v) == [raised |-> FALSE, value |-> v]
Raised(e) == [raised |-> TRUE, error |-> e]

\* "Sugestão: use parâmetros", as far as the classifier of contents looks
Sugestao == <<"S", "u", "g", "e", "s", "t", "a_tilde", "o">>

\* "RECOMENDA"
Recomenda == <<"R", "E", "C", "O", "M", "E", "N", "D", "A">>

\* What self.agent.run(prompt) / self.agent.arun(prompt) can do: return a
\* response that has a content attribute, return an object that has none
\* (str(response) is used then), or raise an exception.
ClientOutcomes ==
    {[kind |-> "response", has_content |-> TRUE, content |-> <<"o", "k">>,
      str |-> <<"R", "u", "n">>],
     [kind |-> "response", has_content |-> TRUE, content |-> Sugestao,
      str |-> <<"R", "u", "n">>],
     [kind |-> "response", has_content |-> TRUE, content |-> Recomenda,
      str |-> <<"R", "u", "n">>],
     [kind |-> "response", has_content |-> FALSE, content |-> <<>>,
      str |-> <<"r", "a", "w">>],
     [kind |-> "raise", has_content |-> FALSE, content |-> <<>>,
      str |-> <<"t", "i", "m", "e", "o", "u", "t">>]}

\* ModelConfig.name
ModelName == "gpt-4o"

AgentResponse(success, content, metadata, model) ==
    [success |-> success, content |-> content, metadata |-> metadata, model |-> model]

\* "Erro ao processar: "
ErroAoProcessar ==
    <<"E", "r", "r", "o", " ", "a", "o", " ", "p", "r", "o", "c", "e", "s", "s", "a", "r",
      ":", " ">>

\* the try block of run
run_Try(name, outcome) ==
    IF outcome.kind = "raise" THEN Raised(outcome.str)
    ELSE LET content == IF outcome.has_content THEN outcome.content ELSE outcome.str
         IN Returned(AgentResponse(TRUE, content,
                                   <<<<"agent", name>>, <<"model", ModelName>>>>,
                                   PyStr(ModelName)))

\* except Exception as e: return AgentResponse(success=False, ...)
ExceptErroAoProcessar(r) ==
    IF r.raised
    THEN Returned(AgentResponse(FALSE, ErroAoProcessar \o r.error,
                                <<<<"error", r.error>>>>, PyNone))
    ELSE r

run_NoExcept(name, outcome) == run_Try(name, outcome)

\* BaseCopilotAgent.run(prompt), the client doing outcome
run(name, outcome) == ExceptErroAoProcessar(run_Try(name, outcome))

\* the try block of arun
arun_Try(name, outcome) ==
    IF outcome.kind = "raise" THEN Raised(outcome.str)
    ELSE LET content == IF outcome.has_content THEN outcome.content ELSE outcome.str
         IN Returned(AgentResponse(TRUE, content, <<<<"agent", name>>>>, PyStr(ModelName)))

\* BaseCopilotAgent.arun(prompt), the client doing outcome
arun(name, outcome) == ExceptErroAoProcessar(arun_Try(name, outcome))

\* The exception a copilot's process raises when building its prompt fails.
PromptError == <<"K", "e", "y", "E", "r", "r", "o", "r">>

\* copilot.process(context) of a registered copilot: build the prompt, then
\* return self.run(prompt).
copilot_process(name, prompt_fails, outcome) ==
    IF prompt_fails THEN Raised(PromptError) ELSE run(name, outcome)

\* await copilot.arun(str(context)); a subclass may replace arun by a method
\* that raises.
copilot_arun(name, arun_fails, outcome) ==
    IF arun_fails THEN Raised(PromptError) ELSE arun(name, outcome)

(***************************************************************************)
(* The coordinator: process, aprocess and _consolidate_results.            *)
(***************************************************************************)
\* results[k] = v of a Python dict, kept as its pairs in insertion order
DictSet(pairs, k, v) ==
    IF \E i \in 1..Len(pairs) : pairs[i][1] = k
    THEN [i \in 1..Len(pairs) |-> IF pairs[i][1] = k THEN <<k, v>> ELSE pairs[i]]
    ELSE Append(pairs, <<k, v>>)

\* "Erro: "
Erro == <<"E", "r", "r", "o", ":", " ">>

process_result_ErrorDropped(r) ==
    IF r.raised
    THEN [success |-> FALSE, content |-> Erro, metadata |-> <<>>]
    ELSE [success |-> r.value.success, content |-> r.value.content,
          metadata |-> r.value.metadata]

\* The body of process's loop for a registered copilot: the entry it puts in
\* results.
process_result(r) ==
    IF r.raised
    THEN [success |-> FALSE, content |-> Erro \o r.error, metadata |-> <<>>]
    ELSE [success |-> r.value.success, content |-> r.value.content,
          metadata |-> r.value.metadata]

run_copilot_result_ErrorSucceeds(r) ==
    IF r.raised
    THEN [success |-> TRUE, content |-> r.error]
    ELSE [success |-> r.value.success, content |-> r.value.content]

\* What run_copilot returns next to the name for a registered copilot.
run_copilot_result(r) ==
    IF r.raised
    THEN [success |-> FALSE, content |-> r.error]
    ELSE [success |-> r.value.success, content |-> r.value.content]

Recomend == <<"r", "e", "c", "o", "m", "e", "n", "d">>
Sugest == <<"s", "u", "g", "e", "s", "t">>

\* for copilot_name, result in results.items(): summary_parts.append(...)
RECURSIVE SummaryParts(_, _)
SummaryParts(results, i) ==
    IF i > Len(results) THEN <<>>
    ELSE <<IF results[i][2].success
           THEN <<"(check) ", results[i][1], ": Analise concluida">>
           ELSE <<"(cross) ", results[i][1], ": Falha na analise">> >>
         \o SummaryParts(results, i + 1)

\* "\n".join(parts)
RECURSIVE Join(_, _)
Join(parts, i) ==
    IF i > Len(parts) THEN <<>>
    ELSE (IF i > 1 THEN <<"\n">> ELSE <<>>) \o parts[i] \o Join(parts, i + 1)

RECURSIVE Recommendations_NoBreak(_, _)
Recommendations_NoBreak(results, i) ==
    IF i > Len(results) THEN <<>>
    ELSE LET content == results[i][2].content IN
         (IF In(Recomend, lower(content)) \/ In(Sugest, lower(content))
          THEN <<"Verifique as recomendacoes detalhadas no relatorio">>
          ELSE <<>>) \o Recommendations_NoBreak(results, i + 1)

\* for result in results.values(): if "recomend" in ... : append; break
RECURSIVE Recommendations(_, _)
Recommendations(results, i) ==
    IF i > Len(results) THEN <<>>
    ELSE LET content == results[i][2].content IN
         IF In(Recomend, lower(content)) \/ In(Sugest, lower(content))
         THEN <<"Verifique as recomendacoes detalhadas no relatorio">>
         ELSE Recommendations(results, i + 1)

CoordinatorResponse(success, summary, details, recommendations, copilots_used) ==
    [success |-> success, summary |-> summary, details |-> details,
     recommendations |-> recommendations, copilots_used |-> copilots_used]

_consolidate_results(results, types) ==
    LET all_success == \A i \in 1..Len(results) : results[i][2].success
        summary == <<"## Resumo da Analise", "\n", "\n">>
                       \o Join(SummaryParts(results, 1), 1)
    IN CoordinatorResponse(all_success, summary, results,
                           Recommendations(results, 1), types)

\* The copilot types registered in the runs of process and aprocess.
CoordTypes == {"code_reviewer", "debug", "security"}

DocsMessage == <<"d", "o", "c", "s">>
PlainMessage == <<"x">>

\* The requests: a message to classify, or copilots named by the caller
\* (registered ones, unregistered ones, one named twice).
Requests ==
    {[message |-> ExampleMessage, preferred_copilots |-> PyNone],
     [message |-> ReviewAllMessage, preferred_copilots |-> PyNone],
     [message |-> DocsMessage, preferred_copilots |-> PyNone],
     [message |-> PlainMessage, preferred_copilots |-> PyList(<<>>)],
     [message |-> PlainMessage,
      preferred_copilots |-> PyList(<<"code_reviewer", "security">>)],
     [message |-> PlainMessage, preferred_copilots |-> PyList(<<"testing">>)],
     [message |-> PlainMessage,
      preferred_copilots |-> PyList(<<"debug", "testing", "security">>)],
     [message |-> PlainMessage, preferred_copilots |-> PyList(<<"security", "security">>)]}

\* The call for one entry of copilot_types: not begun, awaiting the copilot,
\* or ended.  An ended call keeps what the client did, what the copilot
\* returned or raised, and the result the coordinator made of it (None when
\* the type is not registered and nothing was called).
Pending(name) == [state |-> "pending", name |-> name]
Running(name) == [state |-> "running", name |-> name]
Ended(name, called, client, returned, result) ==
    [state |-> "done", name |-> name, called |-> called, client |-> client,
     returned |-> returned, result |-> result]
NoClientCall == [kind |-> "none"]
NothingReturned == [raised |-> FALSE]
NotInvoked(name) == Ended(name, FALSE, NoClientCall, NothingReturned, PyNone)

\* if request.preferred_copilots: ... else: detect_intent, select_copilots
ResolveTypes(self_copilots, req) ==
    IF Truthy(req.preferred_copilots)
    THEN {req.preferred_copilots[2]}
    ELSE select_copilots(self_copilots, detect_intent(req.message))

NoCopilot_NotChecked(method) == _consolidate_results(<<>>, <<>>)

\* if not copilot_types: return CoordinatorResponse(success=False, ...)
NoCopilot(method) ==
    CoordinatorResponse(FALSE,
                        IF method = "process"
                        THEN <<"Nenhum copiloto disponivel para esta solicitacao">>
                        ELSE <<"Nenhum copiloto disponivel">>,
                        <<>>, <<>>, <<>>)

\* process(request) and aprocess(request) up to the first copilot call.
Start(method) ==
    /\ request = NoRequest
    /\ available = NotCalled
    /\ \E req \in Requests :
        \E types \in ResolveTypes(copilots, req) :
            /\ request' = [method |-> method, message |-> req.message,
                           preferred_copilots |-> req.preferred_copilots]
            /\ copilot_types' = types
            /\ results_list' = [i \in 1..Len(types) |-> Pending(types[i])]
            /\ completed' = <<>>
            /\ invoked' = [ct \in CopilotType |-> 0]
            /\ response' = IF types = <<>> THEN NoCopilot(method) ELSE NoResponse
            /\ UNCHANGED <<selectVars, intentVars, cacheVars, utilVars>>

InFlight(method) ==
    /\ request.method = method
    /\ response = NoResponse

Begun(i) == \A j \in 1..(i - 1) : results_list[j].state # "pending"

\* One round of process's loop: the copilot is called and has returned or
\* raised before the next round.
ProcessCopilot ==
    /\ InFlight("process")
    /\ \E i \in 1..Len(copilot_types) :
        /\ results_list[i].state = "pending"
        /\ \A j \in 1..(i - 1) : results_list[j].state = "done"
        /\ LET copilot_type == copilot_types[i] IN
           IF copilot_type \in copilots
           THEN \E outcome \in ClientOutcomes, prompt_fails \in BOOLEAN :
                    LET r == copilot_process(copilot_type, prompt_fails, outcome) IN
                    /\ results_list' =
                          [results_list EXCEPT
                              ![i] = Ended(copilot_type, TRUE,
                                           IF prompt_fails THEN NoClientCall ELSE outcome,
                                           r, PyDict(process_result(r)))]
                    /\ invoked' = [invoked EXCEPT ![copilot_type] = @ + 1]
           ELSE /\ results_list' = [results_list EXCEPT ![i] = NotInvoked(copilot_type)]
                /\ invoked' = invoked
        /\ completed' = Append(completed, i)
        /\ UNCHANGED <<request, copilot_types, response, selectVars, intentVars, cacheVars, utilVars>>

\* A task of asyncio.gather begins, in the order the tasks were made:
\* run_copilot returns at once for a type that is not registered, and
\* otherwise calls arun and waits.
BeginTask ==
    /\ InFlight("aprocess")
    /\ \E i \in 1..Len(copilot_types) :
        /\ results_list[i].state = "pending"
        /\ Begun(i)
        /\ LET copilot_type == copilot_types[i] IN
           IF copilot_type \in copilots
           THEN /\ results_list' = [results_list EXCEPT ![i] = Running(copilot_type)]
                /\ invoked' = [invoked EXCEPT ![copilot_type] = @ + 1]
                /\ completed' = completed
           ELSE /\ results_list' = [results_list EXCEPT ![i] = NotInvoked(copilot_type)]
                /\ invoked' = invoked
                /\ completed' = Append(completed, i)
        /\ UNCHANGED <<request, copilot_types, response, selectVars, intentVars, cacheVars, utilVars>>

\* An awaited arun ends, whichever it is.
EndTask ==
    /\ InFlight("aprocess")
    /\ \E i \in 1..Len(copilot_types) :
        /\ results_list[i].state = "running"
        /\ \E outcome \in ClientOutcomes, arun_fails \in BOOLEAN :
              LET r == copilot_arun(copilot_types[i], arun_fails, outcome) IN
              results_list' =
                  [results_list EXCEPT
                      ![i] = Ended(copilot_types[i], TRUE,
                                   IF arun_fails THEN NoClientCall ELSE outcome,
                                   r, PyDict(run_copilot_result(r)))]
        /\ completed' = Append(completed, i)
        /\ UNCHANGED <<request, copilot_types, invoked, response,
                       selectVars, intentVars, cacheVars, utilVars>>

gather_AsCompleted(entries, order) == [k \in 1..Len(order) |-> entries[order[k]]]

\* results_list = await asyncio.gather(*tasks): the results in the order of
\* the tasks, whatever the order they ended in.
gather(entries, order) == entries

\* {name: result for name, result in results_list if result}, and the dict
\* process's loop fills
RECURSIVE DictOf(_, _, _)
DictOf(entries, i, results) ==
    IF i > Len(entries) THEN results
    ELSE DictOf(entries, i + 1,
                IF entries[i].result[1] = "dict"
                THEN DictSet(results, entries[i].name, entries[i].result[2])
                ELSE results)

\* return self._consolidate_results(results, copilot_types)
Consolidate ==
    /\ request.method # "none"
    /\ response = NoResponse
    /\ \A i \in 1..Len(results_list) : results_list[i].state = "done"
    /\ LET entries == IF request.method = "process" THEN results_list
                      ELSE gather(results_list, completed)
       IN response' = _consolidate_results(DictOf(entries, 1, <<>>), copilot_types)
    /\ UNCHANGED <<request, copilot_types, results_list, completed, invoked,
                   selectVars, intentVars, cacheVars, utilVars>>

\* The caller has the response.
Respond ==
    /\ response # NoResponse
    /\ request' = NoRequest
    /\ copilot_types' = <<>>
    /\ results_list' = <<>>
    /\ completed' = <<>>
    /\ invoked' = <<>>
    /\ response' = NoResponse
    /\ UNCHANGED <<selectVars, intentVars, cacheVars, utilVars>>

DispatchNext ==
    \/ RegisterCopilot(CoordTypes)
    \/ Start("process")
    \/ Start("aprocess")
    \/ ProcessCopilot
    \/ BeginTask
    \/ EndTask
    \/ Consolidate
    \/ Respond

SpecDispatch == IntentInit /\ [][DispatchNext]_vars

(***************************************************************************)
(* The token counter (src/utils/token_counter.py).  A text is a sequence   *)
(* of characters.  The encoder is tiktoken's byte-pair encoding: a text    *)
(* becomes the units of its UTF-8 bytes, adjacent units are merged into    *)
(* longer tokens in rank order, and decoding joins the bytes of the tokens *)
(* and reads them as UTF-8 with errors="replace".  The vocabulary here     *)
(* holds the letters "w" and "o", the space, the merged tokens "wo" and    *)
(* " wo", a character of four bytes that takes two tokens ("emoji"), and   *)
(* the replacement character U+FFFD ("fffd").                              *)
(***************************************************************************)
MaxTextLen == 3
MaxChunkSize == 2
\* no text of MaxTextLen characters has more tokens than this
MaxTokens == 2 * MaxTextLen
\* chunks after this many are appended but not recorded
MaxChunks == MaxTokens + 1

Chars == {"w", "o", " ", "emoji"}
Texts == UNION {[1..n -> Chars] : n \in 0..MaxTextLen}

Utf8Units(ch) ==
    CASE ch = "emoji" -> <<"F09F", "9982">>
      [] ch = "fffd" -> <<"EFBFBD">>
      [] OTHER -> <<ch>>
RECURSIVE ToUnits(_)
ToUnits(text) ==
    IF text = <<>> THEN <<>> ELSE Utf8Units(Head(text)) \o ToUnits(Tail(text))
\* one byte-pair merge: every adjacent pair (a, b), left to right, becomes ab
RECURSIVE Merge(_, _, _, _)
Merge(units, a, b, ab) ==
    IF Len(units) < 2 THEN units
    ELSE IF units[1] = a /\ units[2] = b
         THEN <<ab>> \o Merge(SubSeq(units, 3, Len(units)), a, b, ab)
         ELSE <<units[1]>> \o Merge(Tail(units), a, b, ab)
encode(text) == Merge(Merge(ToUnits(text), "w", "o", "wo"), " ", "wo", " wo")

TokenUnits(token) ==
    CASE token = "wo" -> <<"w", "o">>
      [] token = " wo" -> <<" ", "w", "o">>
      [] OTHER -> <<token>>
RECURSIVE TokensToUnits(_)
TokensToUnits(toks) ==
    IF toks = <<>> THEN <<>> ELSE TokenUnits(Head(toks)) \o TokensToUnits(Tail(toks))
\* bytes.decode("utf-8", errors="replace"): bytes that are not a whole
\* character become U+FFFD
RECURSIVE FromUnits(_)
FromUnits(units) ==
    IF units = <<>> THEN <<>>
    ELSE IF Len(units) >= 2 /\ units[1] = "F09F" /\ units[2] = "9982"
         THEN <<"emoji">> \o FromUnits(SubSeq(units, 3, Len(units)))
         ELSE IF units[1] \in {"F09F", "9982", "EFBFBD"}
              THEN <<"fffd">> \o FromUnits(Tail(units))
              ELSE <<units[1]>> \o FromUnits(Tail(units))
decode(toks) == FromUnits(TokensToUnits(toks))

\* seq[lo:hi] for 0 <= lo and 0 <= hi
Slice(seq, lo, hi) ==
    SubSeq(seq, lo + 1, IF hi < Len(seq) THEN hi ELSE Len(seq))
Min(a, b) == IF a <= b THEN a ELSE b

truncate_to_limit_Chars(text, max_tokens) ==
    IF Len(text) <= max_tokens THEN text ELSE Slice(text, 0, max_tokens)
truncate_to_limit(text, max_tokens) ==
    LET toks == encode(text)
    IN IF Len(toks) <= max_tokens
       THEN text
       ELSE LET truncated_tokens == Slice(toks, 0, max_tokens)
            IN decode(truncated_tokens)

TokenIdle == tcall = NoTokenCall
TokenInit ==
    /\ UtilIdle
    /\ CacheIdle
    /\ IntentIdle
    /\ CoordIdle

\* truncate_to_limit(text, max_tokens), called and returned
Truncate ==
    /\ TokenIdle
    /\ \E text \in Texts, max_tokens \in 0..MaxTokens :
        /\ tcall' = [name |-> "truncate_to_limit", text |-> text,
                     max_tokens |-> max_tokens, done |-> TRUE,
                     ret |-> truncate_to_limit(text, max_tokens)]
        /\ tokens' = encode(text)
    /\ UNCHANGED <<start, chunks, slices, fileVars, raceVars, clientVars, cacheVars, intentVars, coordVars>>

\* split_into_chunks(text, chunk_size, overlap) up to the loop
SplitBegin ==
    /\ TokenIdle
    /\ \E text \in Texts, chunk_size \in 1..MaxChunkSize :
        \E overlap \in 0..(chunk_size - 1) :
            /\ tcall' = [name |-> "split_into_chunks", text |-> text,
                         chunk_size |-> chunk_size, overlap |-> overlap,
                         rounds |-> 0, done |-> FALSE]
            /\ tokens' = encode(text)
    /\ chunks' = <<>>
    /\ slices' = <<>>
    /\ start' = 0
    /\ UNCHANGED <<fileVars, raceVars, clientVars, cacheVars, intentVars, coordVars>>

Splitting == tcall.name = "split_into_chunks" /\ ~tcall.done

next_start(end, overlap) == IF overlap > 0 THEN end - overlap ELSE end

\* one round of the while loop; tcall.rounds is the number of rounds made,
\* modulo 2
SplitStep ==
    /\ Splitting
    /\ start < Len(tokens)
    /\ LET end == Min(start + tcall.chunk_size, Len(tokens))
           chunk_tokens == Slice(tokens, start, end)
       IN /\ IF Len(chunks) < MaxChunks
             THEN /\ chunks' = Append(chunks, decode(chunk_tokens))
                  /\ slices' = Append(slices, chunk_tokens)
             ELSE UNCHANGED <<chunks, slices>>
          /\ start' = next_start(end, tcall.overlap)
    /\ tcall' = [tcall EXCEPT !.rounds = 1 - @]
    /\ UNCHANGED <<tokens, fileVars, raceVars, clientVars, cacheVars, intentVars, coordVars>>

\* the loop ends and the chunks are returned
SplitReturn ==
    /\ Splitting
    /\ ~(start < Len(tokens))
    /\ tcall' = [tcall EXCEPT !.done = TRUE]
    /\ UNCHANGED <<tokens, start, chunks, slices, fileVars, raceVars, clientVars, cacheVars,
                   intentVars, coordVars>>

\* the caller has the result
TokenReturn ==
    /\ tcall.done
    /\ tcall' = NoTokenCall
    /\ tokens' = <<>>
    /\ start' = 0
    /\ chunks' = <<>>
    /\ slices' = <<>>
    /\ UNCHANGED <<fileVars, raceVars, clientVars, cacheVars, intentVars, coordVars>>

TokenNext ==
    \/ Truncate
    \/ SplitBegin
    \/ SplitStep
    \/ SplitReturn
    \/ TokenReturn

SpecTokens == TokenInit /\ [][TokenNext]_vars
\* a loop that can make a round makes it, and one that can end ends
SpecTokensFair == SpecTokens /\ WF_vars(SplitStep) /\ WF_vars(SplitReturn)

(***************************************************************************)
(* The file tool (src/tools/file_operations.py).  The workspace holds      *)
(* files and directories under a few names; the tool only reads it.  The   *)
(* outcome of a read_file call is kept until the workspace changes.        *)
(***************************************************************************)
MaxFiles == 2

ALLOWED_EXTENSIONS ==
    {".py", ".js", ".ts", ".tsx", ".jsx", ".java", ".go", ".rs", ".rb", ".php",
     ".cs", ".cpp", ".c", ".h", ".hpp", ".swift", ".kt", ".scala", ".vue",
     ".sql", ".sh", ".bash", ".zsh", ".yaml", ".yml", ".json", ".toml", ".xml",
     ".html", ".css", ".scss", ".sass", ".less", ".md", ".txt", ".rst", ".ini",
     ".cfg", ".conf", ".env", ".gitignore", ".dockerignore", "Dockerfile",
     "Makefile", "requirements.txt", "package.json"}
MAX_FILE_SIZE == 1000000

\* Path(file_path): its name and its suffix
Paths ==
    {[name |-> "main.py", suffix |-> ".py"],
     [name |-> "Dockerfile", suffix |-> ""],
     [name |-> "photo.png", suffix |-> ".png"],
     [name |-> "README", suffix |-> ""]}
FilePaths == {p.name : p \in Paths}
_resolve_path(file_path) == CHOOSE p \in Paths : p.name = file_path

Sizes == {MAX_FILE_SIZE - 1, MAX_FILE_SIZE, MAX_FILE_SIZE + 1}
Contents == {<<"l1">>, <<"l1", "l2", "l3">>}
Directory == [kind |-> "dir", st_size |-> 0, lines |-> <<>>, utf8 |-> TRUE]
RegularFiles ==
    [kind : {"file"}, st_size : Sizes, lines : Contents, utf8 : BOOLEAN]
MaxLinesArgs == {PyNone} \cup {PyNum(n) : n \in 0..2}

_is_allowed_file(path) ==
    IF path.suffix \in ALLOWED_EXTENSIONS THEN TRUE
    ELSE IF path.name \in ALLOWED_EXTENSIONS THEN TRUE
    ELSE FALSE

FileNotFound == [type |-> "FileNotFoundError", message |-> "Arquivo nao encontrado"]
NotAFile == [type |-> "ValueError", message |-> "Nao e um arquivo"]
NotAllowed == [type |-> "PermissionError", message |-> "Tipo de arquivo nao permitido"]
TooLarge == [type |-> "ValueError", message |-> "Arquivo muito grande"]

\* path.read_text(encoding="utf-8"), and latin-1 when that cannot decode
read_text(entry) ==
    [lines |-> entry.lines, omitted |-> 0,
     encoding |-> IF entry.utf8 THEN "utf-8" ELSE "latin-1"]
\* the first max_lines lines and, when lines were left out, how many
LimitLines(content, max_lines) ==
    IF Truthy(max_lines)
    THEN [content EXCEPT
            !.lines = Slice(content.lines, 0, max_lines[2]),
            !.omitted = IF Len(content.lines) > max_lines[2]
                        THEN Len(content.lines) - max_lines[2] ELSE 0]
    ELSE content

read_file_SizeFirst(fs, file_path, max_lines) ==
    LET path == _resolve_path(file_path) IN
    IF ~Exists(fs, path.name) THEN Raised(FileNotFound)
    ELSE IF fs[path.name].kind # "file" THEN Raised(NotAFile)
    ELSE IF fs[path.name].st_size > MAX_FILE_SIZE THEN Raised(TooLarge)
    ELSE IF ~_is_allowed_file(path) THEN Raised(NotAllowed)
    ELSE Returned(LimitLines(read_text(fs[path.name]), max_lines))
read_file(fs, file_path, max_lines) ==
    LET path == _resolve_path(file_path) IN
    IF ~Exists(fs, path.name) THEN Raised(FileNotFound)
    ELSE IF fs[path.name].kind # "file" THEN Raised(NotAFile)
    ELSE IF ~_is_allowed_file(path) THEN Raised(NotAllowed)
    ELSE LET file_size == fs[path.name].st_size IN
         IF file_size > MAX_FILE_SIZE THEN Raised(TooLarge)
         ELSE Returned(LimitLines(read_text(fs[path.name]), max_lines))

FileInit ==
    /\ UtilIdle
    /\ CacheIdle
    /\ IntentIdle
    /\ CoordIdle

HasRoom(name) == name \in DOMAIN disk \/ Cardinality(DOMAIN disk) < MaxFiles

\* a file is written into the workspace
WriteFile ==
    /\ \E name \in FilePaths :
        /\ HasRoom(name)
        /\ \E entry \in RegularFiles : disk' = WriteText(disk, name, entry)
    /\ fcall' = NoFileCall
    /\ UNCHANGED <<tokenVars, raceVars, clientVars, cacheVars, intentVars, coordVars>>

\* a directory is made in the workspace
MakeDir ==
    /\ \E name \in FilePaths :
        /\ name \notin DOMAIN disk
        /\ HasRoom(name)
        /\ disk' = WriteText(disk, name, Directory)
    /\ fcall' = NoFileCall
    /\ UNCHANGED <<tokenVars, raceVars, clientVars, cacheVars, intentVars, coordVars>>

\* a file or directory is removed from the workspace
Remove ==
    /\ \E name \in DOMAIN disk : disk' = Unlink(disk, name)
    /\ fcall' = NoFileCall
    /\ UNCHANGED <<tokenVars, raceVars, clientVars, cacheVars, intentVars, coordVars>>

\* read_file(file_path, max_lines), called and ended
ReadFile ==
    /\ \E file_path \in FilePaths, max_lines \in MaxLinesArgs :
        fcall' = [name |-> "read_file", file_path |-> file_path,
                  max_lines |-> max_lines,
                  outcome |-> read_file(disk, file_path, max_lines)]
    /\ UNCHANGED <<disk, tokenVars, raceVars, clientVars, cacheVars, intentVars, coordVars>>

FileNext ==
    \/ WriteFile
    \/ MakeDir
    \/ Remove
    \/ ReadFile

SpecFiles == FileInit /\ [][FileNext]_vars

(***************************************************************************)
(* The REST API and the client bundled with it.  A JSON body is a function *)
(* from field names to values; a request model gives, for each field,      *)
(* whether it is required and the types it takes.                          *)
(***************************************************************************)
Field(required, types) == [required |-> required, types |-> types]

CodeRequest ==
    [code |-> Field(TRUE, {"str"}),
     language |-> Field(FALSE, {"str"}),
     filename |-> Field(FALSE, {"str", "none"})]
ReviewRequest == [quick |-> Field(FALSE, {"bool"})] @@ CodeRequest
DocRequest ==
    [style |-> Field(FALSE, {"str"}), doc_type |-> Field(FALSE, {"str"})] @@ CodeRequest
TestRequest ==
    [framework |-> Field(FALSE, {"str"}), test_type |-> Field(FALSE, {"str"})] @@ CodeRequest
DebugRequest ==
    [error_message |-> Field(TRUE, {"str"}),
     stack_trace |-> Field(FALSE, {"str", "none"}),
     code |-> Field(FALSE, {"str", "none"}),
     language |-> Field(FALSE, {"str"})]
RefactorRequest == [focus |-> Field(FALSE, {"list", "none"})] @@ CodeRequest

\* @app.post(path) with the request model of its handler
Routes ==
    [review |-> ReviewRequest, docs |-> DocRequest, test |-> TestRequest,
     security |-> CodeRequest, debug |-> DebugRequest, refactor |-> RefactorRequest]
PostRoutes == {<<"api", "v1", name>> : name \in DOMAIN Routes}
\* @app.get(path)
GetRoutes == {<<>>, <<"health">>}

\* the body has every required field, and every field it has of the model
\* is of a type the model takes; other fields are ignored
Validates(model, body) ==
    \A f \in DOMAIN model :
        IF f \in DOMAIN body THEN body[f][1] \in model[f].types
        ELSE ~model[f].required

\* the status the app answers with; handler_raises: the copilot call of the
\* handler raised
app(method, path, body, handler_raises) ==
    IF method = "GET"
    THEN IF path \in GetRoutes THEN 200
         ELSE IF path \in PostRoutes THEN 405 ELSE 404
    ELSE IF path \in PostRoutes
         THEN IF ~Validates(Routes[path[3]], body) THEN 422
              ELSE IF handler_raises THEN 500 ELSE 200
         ELSE IF path \in GetRoutes THEN 405 ELSE 404

Codes == {PyStr("def soma(a,b): return a+b"), PyStr("")}
Languages == {PyStr("python"), PyStr("javascript")}
Frameworks == {PyStr("pytest"), PyStr("jest")}
Styles == {PyStr("google"), PyStr("numpy")}
Focuses == {PyNone, PyList(<<PyStr("naming")>>)}
ErrorMessages == {PyStr("IndexError: list index out of range")}
BaseUrls ==
    {<<"http://localhost:8000">>, <<"http://localhost:8000", "/">>,
     <<"http://copilot:8000", "/", "/">>}

\* str.rstrip("/")
RECURSIVE rstrip(_)
rstrip(url) ==
    IF Len(url) > 0 /\ url[Len(url)] = "/" THEN rstrip(SubSeq(url, 1, Len(url) - 1))
    ELSE url

\* The requests of CopilotClient's methods: self._request(method, endpoint, json=...)
health == [call |-> "health", method |-> "GET", endpoint |-> <<"health">>, json |-> <<>>]
review(code, language, quick) ==
    [call |-> "review", method |-> "POST", endpoint |-> <<"api", "review">>,
     json |-> [code |-> code, language |-> language, quick |-> PyBool(quick)]]
generate_tests(code, language, framework) ==
    [call |-> "generate_tests", method |-> "POST", endpoint |-> <<"api", "test">>,
     json |-> [code |-> code, language |-> language, framework |-> framework]]
security_scan(code, language) ==
    [call |-> "security_scan", method |-> "POST", endpoint |-> <<"api", "security">>,
     json |-> [code |-> code, language |-> language]]
generate_docs(code, language, style) ==
    [call |-> "generate_docs", method |-> "POST", endpoint |-> <<"api", "docs">>,
     json |-> [code |-> code, language |-> language, style |-> style]]
refactor(code, language, focus) ==
    [call |-> "refactor", method |-> "POST", endpoint |-> <<"api", "refactor">>,
     json |-> [code |-> code, language |-> language,
               focus |-> IF Truthy(focus) THEN focus ELSE PyList(<<>>)]]
debug(error_message, code, language) ==
    [call |-> "debug", method |-> "POST", endpoint |-> <<"api", "debug">>,
     json |-> [error |-> error_message, code |-> code, language |-> language]]

ClientRequests ==
    {health}
    \cup {review(c, l, q) : c \in Codes, l \in Languages, q \in BOOLEAN}
    \cup {generate_tests(c, l, f) : c \in Codes, l \in Languages, f \in Frameworks}
    \cup {security_scan(c, l) : c \in Codes, l \in Languages}
    \cup {generate_docs(c, l, s) : c \in Codes, l \in Languages, s \in Styles}
    \cup {refactor(c, l, f) : c \in Codes, l \in Languages, f \in Focuses}
    \cup {debug(e, c, l) : e \in ErrorMessages, c \in Codes \cup {PyNone}, l \in Languages}

\* CopilotClient._request: the request to base_url + endpoint, and what the
\* method returns: the JSON of the answer, or {"error": ...} when the API
\* does not answer or answers with an error status
_request(by, url, r, up, handler_raises) ==
    LET status == app(r.method, r.endpoint, r.json, handler_raises) IN
    [by |-> by, call |-> r.call, method |-> r.method, url |-> url,
     endpoint |-> r.endpoint, json |-> r.json,
     status |-> IF up THEN status ELSE 0,
     returns |-> IF ~up THEN "error: connect"
                 ELSE IF status >= 400 THEN "error: http" ELSE "json"]

\* CopilotClient(base_url)
NewClient ==
    /\ \E url \in BaseUrls : base_url' = rstrip(url)
    /\ exchange' = NoExchange
    /\ UNCHANGED <<api_up, tokenVars, fileVars, raceVars, cacheVars, intentVars, coordVars>>

\* the API is started or stopped
StartStop ==
    /\ api_up' = ~api_up
    /\ exchange' = NoExchange
    /\ UNCHANGED <<base_url, tokenVars, fileVars, raceVars, cacheVars, intentVars, coordVars>>

\* a method of the client is called
ClientCall ==
    /\ \E r \in ClientRequests, handler_raises \in BOOLEAN :
        exchange' = _request("CopilotClient", base_url, r, api_up, handler_raises)
    /\ UNCHANGED <<base_url, api_up, tokenVars, fileVars, raceVars, cacheVars,
                   intentVars, coordVars>>

\* a request to a route of the API, as its documentation gives it, with one
\* of the bodies above or the body of a DebugRequest
DirectPost ==
    /\ api_up
    /\ \E path \in PostRoutes, r \in ClientRequests, e \in ErrorMessages,
          handler_raises \in BOOLEAN :
        \E body \in {r.json, [error_message |-> e] @@ r.json} :
            exchange' = _request("http", base_url,
                                 [call |-> "post", method |-> "POST",
                                  endpoint |-> path, json |-> body],
                                 TRUE, handler_raises)
    /\ UNCHANGED <<base_url, api_up, tokenVars, fileVars, raceVars, cacheVars,
                   intentVars, coordVars>>

ClientNext ==
    \/ NewClient
    \/ StartStop
    \/ ClientCall
    \/ DirectPost

SpecClient == Init /\ [][ClientNext]_vars

(***************************************************************************)
(* Properties of the cache.                                                *)
(***************************************************************************)
Stored(k) == Exists(files, get_cache_path(k))
Entry(k) == CacheEntry(files[get_cache_path(k)])
Logged(k) == setLog[k] # <<>>
LastSet(k) == setLog[k][1]
GetOf(k) == op.name = "get" /\ op.key = k /\ enabled

\* C1 as stated: after set(K, V, ttl=T) at set_time, with nothing else touching
\* K, get(K) at time now returns V when now - set_time < T and None when
\* now - set_time >= T, the boundary now - set_time = T included.  (Stated here
\* for the positive T alone.)
C1_GetNoneFromBoundary ==
    \A k \in Keys :
        (GetOf(k) /\ Logged(k) /\ LastSet(k).ttl # PyNone /\ LastSet(k).ttl[2] > 0) =>
            LET T == LastSet(k).ttl[2]
                age == now - LastSet(k).time
            IN /\ (age < T => op.ret = LastSet(k).value)
               /\ (age >= T => op.ret = PyNone)

\* C1 amended: for T > 0, get(K) returns V whenever now - set_time <= T and
\* None whenever now - set_time > T.
C1_GetWithinTtl ==
    \A k \in Keys :
        (GetOf(k) /\ Logged(k) /\ LastSet(k).ttl # PyNone /\ LastSet(k).ttl[2] > 0) =>
            LET T == LastSet(k).ttl[2]
                age == now - LastSet(k).time
            IN /\ (age <= T => op.ret = LastSet(k).value)
               /\ (age > T => op.ret = PyNone)

\* A get at the boundary now - set_time = T that returned the value.
C1_Witness ==
    \E k \in Keys :
        /\ GetOf(k) /\ Logged(k) /\ LastSet(k).ttl = PyNum(1)
        /\ now - LastSet(k).time = 1
        /\ op.ret = LastSet(k).value

\* C2: delete(K) returns true exactly when a file for K was stored, leaves
\* exists(K) false until the next set(K), touches no other file, and changes
\* nothing when no file was stored.
C2_Step ==
    \A k \in Keys :
        LET p == get_cache_path(k) IN
        /\ (op'.name = "delete" /\ op'.key = k) =>
              /\ op'.ret = PyBool(Exists(files, p))
              /\ ~Exists(files', p)
              /\ Cache_exists(cache', k, now', "none").ret = PyBool(FALSE)
              /\ \A q \in DOMAIN files \ {p} : Exists(files', q) /\ files'[q] = files[q]
              /\ (~Exists(files, p) => files' = files)
        /\ (~Exists(files, p) /\ ~(op'.name = "set" /\ op'.key = k)) =>
              /\ ~Exists(files', p)
              /\ Cache_exists(cache', k, now', "none").ret = PyBool(FALSE)

C2_Delete == [][C2_Step]_vars

\* A delete that removed a stored entry while another key stayed stored.
C2_Witness ==
    /\ op.name = "delete" /\ op.ret = PyBool(TRUE)
    /\ ~Stored(op.key)
    /\ \E k \in Keys : Stored(k)

\* C3: clear() removes every entry, so that exists(K) is false and get(K) is
\* None for every key, and returns the number of entries stored before it.
C3_Step ==
    op'.name = "clear" =>
        /\ op'.ret = PyNum(Cardinality(DOMAIN files))
        /\ DOMAIN files' = {}
        /\ \A k \in Keys :
              /\ Cache_exists(cache', k, now', "none").ret = PyBool(FALSE)
              /\ Cache_get(cache', k, now', "none").ret = PyNone

C3_Clear == [][C3_Step]_vars

\* A clear that removed the entries of two shards.
C3_Witness == op.name = "clear" /\ op.ret = PyNum(2) /\ DOMAIN files = {}

\* C4: clear_expired() at time now removes exactly the entries whose
\* expires_at is set and before now, leaves every other entry as it was, and
\* returns the number removed.
C4_Step ==
    op'.name = "clear_expired" =>
        LET stale == {p \in DOMAIN files :
                        /\ CacheEntry(files[p]).expires_at # PyNone
                        /\ CacheEntry(files[p]).expires_at[2] < now}
        IN /\ DOMAIN files' = DOMAIN files \ stale
           /\ \A p \in DOMAIN files' : files'[p] = files[p]
           /\ op'.ret = PyNum(Cardinality(stale))

C4_ClearExpired == [][C4_Step]_vars

\* A clear_expired that removed one entry and kept an entry that has an expiry.
C4_Witness ==
    /\ op.name = "clear_expired" /\ op.ret = PyNum(1)
    /\ \E k \in Keys : Stored(k) /\ Entry(k).expires_at # PyNone

C6_Step ==
    \A k \in Keys :
        LET p == get_cache_path(k) IN
        (/\ op'.name \in {"get", "exists"} /\ op'.key = k /\ enabled
         /\ Exists(files, p)
         /\ CacheEntry(files[p]).expires_at # PyNone
         /\ now > CacheEntry(files[p]).expires_at[2]) =>
            /\ ~Exists(files', p)
            /\ op'.ret = IF op'.name = "get" THEN PyNone ELSE PyBool(FALSE)

C6_ExpiredPurged == [][C6_Step]_vars

\* An exists on an expired entry: false, and the entry is gone.
C6_Witness ==
    \E k \in Keys :
        /\ op.name = "exists" /\ op.key = k /\ enabled
        /\ Logged(k) /\ LastSet(k).expires # PyNone /\ now > LastSet(k).expires[2]
        /\ op.ret = PyBool(FALSE)
        /\ ~Stored(k)

C9_Step ==
    (~enabled /\ op'.name \in {"set", "get", "exists"}) =>
        /\ files' = files
        /\ op'.ret = IF op'.name = "get" THEN PyNone ELSE PyBool(FALSE)

C9_Disabled == [][C9_Step]_vars

\* A get on a disabled cache whose directory holds the key's entry.
C9_Witness == ~enabled /\ op.name = "get" /\ Stored(op.key) /\ op.ret = PyNone

(***************************************************************************)
(* Properties of the intent classifier.                                    *)
(***************************************************************************)
Intents == {INTENT_KEYWORDS[j][1] : j \in 1..Len(INTENT_KEYWORDS)}
KeywordsOf(intent) ==
    LET j == CHOOSE j \in 1..Len(INTENT_KEYWORDS) : INTENT_KEYWORDS[j][1] = intent
    IN {INTENT_KEYWORDS[j][2][n] : n \in 1..Len(INTENT_KEYWORDS[j][2])}
\* kw occurs in text, letter case aside
Occurs(kw, text) ==
    \E at \in 1..Len(text) :
        \A n \in 1..Len(kw) :
            /\ at + n - 1 <= Len(text)
            /\ LowerChar(text[at + n - 1]) = kw[n]
Matches(intent, text) == \E kw \in KeywordsOf(intent) : Occurs(kw, text)
Revisar == <<"r", "e", "v", "i", "s", "a", "r">>

\* C10: when some intent matches, an intent is in detect_intent(m) exactly
\* when one of its keywords occurs in the lower-cased m, each detected intent
\* appears once, and a message containing "revisar" yields REVIEW.
C10_DetectedIffKeyword ==
    LET text == Flatten(message) IN
    (answered /\ \E I \in Intents : Matches(I, text)) =>
        /\ \A I \in Intents :
              (\E n \in 1..Len(detected) : detected[n] = I) <=> Matches(I, text)
        /\ \A m, n \in 1..Len(detected) : detected[m] = detected[n] => m = n
        /\ Occurs(Revisar, text) => \E n \in 1..Len(detected) : detected[n] = "REVIEW"

\* A message in capitals and one that matches two keywords of an intent, whose
\* intents were both detected, once each.
C10_Witness ==
    /\ answered
    /\ Flatten(message) =
         <<"t", "e", "s", "t", "e", "S", "E", "G", "U", "R", "A", "N", "C_CEDILLA", "A">>
    /\ detected = <<"TEST", "SECURITY_SCAN">>

\* C11: detect_intent never returns an empty list, and for a message in which
\* no keyword of any intent occurs it returns exactly <<REVIEW>>.
C11_FallbackReview ==
    answered =>
        /\ detected # <<>>
        /\ (~\E I \in Intents : Matches(I, Flatten(message))) => detected = <<"REVIEW">>

\* A message of words none of which is a keyword, answered with the fallback.
C11_Witness ==
    /\ answered
    /\ Flatten(message) = <<"x", " ", "d", "e">>
    /\ detected = <<"REVIEW">>

SetOf(k) == op.name = "set" /\ op.key = k /\ op.ret = PyBool(TRUE)

\* C25 as stated: set with ttl omitted stores expires_at = created_at +
\* default_ttl, set with ttl = T stores expires_at = created_at + T, and an
\* entry has no expiry only when the TTL in effect is not positive.
C25_ExpiresAfterGivenTtl ==
    \A k \in Keys :
        SetOf(k) =>
            LET ttl == LastSet(k).ttl
                T == IF ttl = PyNone THEN default_ttl ELSE ttl[2]
            IN /\ Entry(k).created_at = now
               /\ \/ Entry(k).expires_at = PyNum(now + T)
                  \/ Entry(k).expires_at = PyNone /\ T <= 0
\* C25, amended: the TTL in effect is default_ttl when ttl is omitted or 0
\* and T otherwise; expires_at is created_at plus it when it is positive, and
\* absent when it is not.
C25_ExpiresAfterEffectiveTtl ==
    \A k \in Keys :
        SetOf(k) =>
            LET ttl == LastSet(k).ttl
                T == IF ttl = PyNone \/ ttl = PyNum(0) THEN default_ttl ELSE ttl[2]
            IN /\ Entry(k).created_at = now
               /\ T > 0 => Entry(k).expires_at = PyNum(now + T)
               /\ T <= 0 => Entry(k).expires_at = PyNone
\* set(K, V, ttl=0) after time has passed, storing created_at + default_ttl
C25_Witness ==
    \E k \in Keys :
        /\ SetOf(k)
        /\ LastSet(k).ttl = PyNum(0)
        /\ now > 0
        /\ Entry(k).expires_at = PyNum(now + default_ttl)

WrapperCall == op.name = "wrapper"
\* review_code was run for these arguments, nothing was deleted since, and
\* the TTL of that run has not passed
RanBefore == op.prior # <<>> /\ now - op.prior[1].time < op.prior[1].ttl[2]

RacePath == get_cache_path(RaceKey)
Unexpired(entry) == entry.expires_at = PyNone \/ now <= entry.expires_at[2]
\* the step keeps the entry that is stored, with its value
KeepsStored ==
    /\ Exists(files', RacePath)
    /\ CacheEntry(files'[RacePath]).value = CacheEntry(files[RacePath]).value
    /\ CacheEntry(files'[RacePath]).created_at = CacheEntry(files[RacePath]).created_at
Overtaken(c) == pending[c].pc # "idle" /\ pending[c].overtaken

\* C28 as stated: with two callers interleaving on one key and no lock, no
\* step of get or exists removes an unexpired entry or replaces a stored
\* value by an older one.
C28_Step ==
    (/\ op'.name \in {"get", "exists"}
     /\ Exists(files, RacePath)
     /\ Unexpired(CacheEntry(files[RacePath]))) => KeepsStored
C28_RacesLoseNothing == [][C28_Step]_vars
\* C28, amended: that holds of a get or exists between whose read and whose
\* unlink or write the other caller neither wrote nor unlinked the file.
C28_StepNotOvertaken ==
    (/\ op'.name \in {"get", "exists"}
     /\ Exists(files, RacePath)
     /\ Unexpired(CacheEntry(files[RacePath]))
     /\ ~Overtaken(op'.caller)) => KeepsStored
C28_LoseNothingUnlessOvertaken == [][C28_StepNotOvertaken]_vars
\* a get has written its hit back while the other caller was inside a call
C28_Witness ==
    /\ op.name = "get"
    /\ op.step = "write"
    /\ \E d \in Callers : d # op.caller /\ pending[d].pc # "idle"
    /\ Exists(files, RacePath)
    /\ CacheEntry(files[RacePath]).hit_count = 1

\* C29: set(K), get(K), exists(K) and delete(K) leave the stored entry of
\* every other key as it was, present or absent, and a get(K) that returns a
\* value returns the value of the entry stored under K by the last set(K).
C29_Step ==
    \A k \in Keys :
        (op'.name \in {"set", "get", "exists", "delete"} /\ op'.key = k) =>
            /\ \A other \in Keys \ {k} :
                  LET q == get_cache_path(other) IN
                  /\ Exists(files', q) <=> Exists(files, q)
                  /\ Exists(files, q) => files'[q] = files[q]
            /\ (op'.name = "get" /\ op'.ret # PyNone) =>
                  /\ Stored(k) /\ Entry(k).key = k /\ op'.ret = Entry(k).value
                  /\ Logged(k) /\ op'.ret = LastSet(k).value
C29_KeyIsolation == [][C29_Step]_vars
\* a get returned the value of its key while the other key held another value
C29_Witness ==
    \E k \in Keys, other \in Keys :
        /\ other # k
        /\ op.name = "get" /\ op.key = k /\ op.ret # PyNone
        /\ Stored(other) /\ Logged(other)
        /\ Entry(other).value # op.ret
        /\ Entry(other).hit_count = LastSet(other).gets

\* C30: every POST request of the bundled CopilotClient targets a route that
\* the API serves, and its JSON body has every required field of that route's
\* request model under the name the route expects.
C30_ClientConforms ==
    (exchange.method = "POST" /\ exchange.by = "CopilotClient") =>
        /\ exchange.endpoint \in PostRoutes
        /\ \A f \in DOMAIN Routes[exchange.endpoint[3]] :
              Routes[exchange.endpoint[3]][f].required => f \in DOMAIN exchange.json

(***************************************************************************)
(* Properties of the copilot selection.                                    *)
(***************************************************************************)
\* C12: select_copilots(intents) holds exactly the copilot types that
\* INTENT_COPILOT_MAP gives for one of the intents and that are registered,
\* each once, whatever register_copilot calls came before.
C12_SelectedRegisteredOnce ==
    available # NotCalled =>
        /\ \A ct \in CopilotType :
              (\E n \in 1..Len(available) : available[n] = ct) <=>
                  /\ ct \in copilots
                  /\ \E i \in 1..Len(intents) :
                        \E k \in 1..Len(INTENT_COPILOT_MAP[intents[i]]) :
                            INTENT_COPILOT_MAP[intents[i]][k] = ct
        /\ \A n \in 1..Len(available) : available[n] \in CopilotType
        /\ \A m, n \in 1..Len(available) : available[m] = available[n] => m = n

\* Two intents that both map to code_reviewer, one of them also to types that
\* are not registered: the list holds code_reviewer once and nothing else.
C12_Witness ==
    /\ intents = <<"REVIEW", "FULL_ANALYSIS">>
    /\ copilots = {"code_reviewer", "testing"}
    /\ available = <<"code_reviewer">>

SelectedFor(m) == answered /\ Flatten(message) = m /\ available # NotCalled

\* C14 as stated: for the example message detect_intent returns a list with
\* REVIEW and SECURITY_SCAN in it, and select_copilots on that list returns
\* code_reviewer and security, or those of the two that are registered.
C14_ReviewAndSecurity ==
    SelectedFor(ExampleMessage) =>
        /\ "REVIEW" \in Range(detected)
        /\ "SECURITY_SCAN" \in Range(detected)
        /\ Range(available) = {"code_reviewer", "security"} \cap copilots

\* C14 amended: for the example message detect_intent returns DEBUG and
\* SECURITY_SCAN, in this order and nothing else, and select_copilots on that
\* list returns debug and security, or those of the two that are registered,
\* each once.
C14_DebugAndSecurity ==
    SelectedFor(ExampleMessage) =>
        /\ detected = <<"DEBUG", "SECURITY_SCAN">>
        /\ intents = detected
        /\ Range(available) = {"debug", "security"} \cap copilots
        /\ Len(available) = Cardinality(Range(available))

\* The example message on a coordinator with code_reviewer, debug and security
\* registered: debug and security are selected, code_reviewer is not.
C14_Witness ==
    /\ SelectedFor(ExampleMessage)
    /\ {"code_reviewer", "debug", "security"} \subseteq copilots
    /\ Range(available) = {"debug", "security"}

(***************************************************************************)
(* Properties of process and aprocess.                                     *)
(***************************************************************************)
Returning == response # NoResponse
Calls == {i \in 1..Len(results_list) :
            results_list[i].state = "done" /\ results_list[i].called}
NoneInvoked == \A ct \in CopilotType : invoked[ct] = 0

\* C13: when the request resolves to no copilot at all, process and aprocess
\* return success = False with empty details and empty copilots_used, and no
\* copilot is called.
C13_NoCopilotFails ==
    (request.method # "none" /\ copilot_types = <<>>) =>
        /\ Returning
        /\ response.success = FALSE
        /\ response.details = <<>>
        /\ response.copilots_used = <<>>
        /\ NoneInvoked
        /\ Calls = {}

\* aprocess on a coordinator with copilots registered, for a message whose
\* only intent maps to a type that is not: the failure response.
C13_Witness ==
    /\ request.method = "aprocess"
    /\ request.message = DocsMessage
    /\ copilots = CoordTypes
    /\ copilot_types = <<>>
    /\ Returning /\ ~response.success

CallsOf(name) == {i \in Calls : results_list[i].name = name}
FirstCall(name) == CHOOSE i \in CallsOf(name) : \A j \in CallsOf(name) : i <= j
LastCall(name) == CHOOSE i \in CallsOf(name) : \A j \in CallsOf(name) : j <= i

\* C15: whatever the order in which the calls of aprocess end, details holds
\* for each called copilot its own result, under its identifier and in the
\* order of copilot_types; success and summary are those of these details and
\* copilots_used is copilot_types.
C15_CompletionOrderIrrelevant ==
    (request.method = "aprocess" /\ Returning /\ copilot_types # <<>>) =>
        LET details == response.details IN
        /\ \A k \in 1..Len(details) :
              /\ CallsOf(details[k][1]) # {}
              /\ PyDict(details[k][2]) = results_list[LastCall(details[k][1])].result
        /\ \A i \in Calls : \E k \in 1..Len(details) : details[k][1] = results_list[i].name
        /\ \A k, l \in 1..Len(details) :
              k < l => FirstCall(details[k][1]) < FirstCall(details[l][1])
        /\ response.success = (\A k \in 1..Len(details) : details[k][2].success)
        /\ response.summary =
              <<"## Resumo da Analise", "\n", "\n">> \o Join(SummaryParts(details, 1), 1)
        /\ response.copilots_used = copilot_types

\* The second call ended before the first, one of them failed, and the
\* response lists the first copilot first.
C15_Witness ==
    /\ request.method = "aprocess"
    /\ Returning
    /\ completed = <<2, 1>>
    /\ Len(response.details) = 2
    /\ response.details[1][1] = copilot_types[1]
    /\ response.details[1][2].success # response.details[2][2].success

ClientCalls == {i \in Calls : results_list[i].client.kind # "none"}
EndsWith(text, tail) ==
    /\ Len(text) >= Len(tail)
    /\ SubSeq(text, Len(text) - Len(tail) + 1, Len(text)) = tail

DetailsOf(name) == {k \in 1..Len(response.details) : response.details[k][1] = name}

\* C17: in a request that has returned, every copilot type of copilot_types
\* that is registered was called exactly once and no other was called, and
\* every call that failed has exactly one entry in details, a failed one.
C17_InvokedExactlyOnce ==
    (Returning /\ copilot_types # <<>>) =>
        /\ \A ct \in CopilotType :
              invoked[ct] = IF ct \in copilots /\ ct \in Range(copilot_types) THEN 1 ELSE 0
        /\ \A i \in Calls :
              results_list[i].result[2].success = FALSE =>
                  /\ Cardinality(DetailsOf(results_list[i].name)) = 1
                  /\ \A k \in DetailsOf(results_list[i].name) :
                        response.details[k][2].success = FALSE

RaisedCalls == {i \in Calls : results_list[i].returned.raised}

DetailsKeys == {response.details[k][1] : k \in 1..Len(response.details)}
InvokedTypes == {ct \in CopilotType : invoked[ct] > 0}

\* C22: in every response of process and aprocess, copilots_used lists
\* exactly the copilots that were called: each has its result in details, and
\* every key of details is in copilots_used.  The code does not satisfy it
\* for a preferred copilot that is not registered.
C22_UsedAreInvoked ==
    Returning =>
        /\ Range(response.copilots_used) = InvokedTypes
        /\ Range(response.copilots_used) = DetailsKeys
Recommending ==
    {k \in 1..Len(response.details) :
        \/ Occurs(Recomend, response.details[k][2].content)
        \/ Occurs(Sugest, response.details[k][2].content)}

\* C23: recommendations has at most one element, and has one exactly when
\* the content of some result in details holds "recomend" or "sugest",
\* letter case aside; how many results hold one makes no difference.
C23_OneRecommendation ==
    Returning =>
        /\ Len(response.recommendations) <= 1
        /\ Len(response.recommendations) = 1 <=> Recommending # {}

\* Two results hold such a word, one of them in capitals, and there is one
\* recommendation.
C23_Witness ==
    /\ Returning
    /\ Cardinality(Recommending) = 2
    /\ \E k \in Recommending : response.details[k][2].content = Recomenda
    /\ Len(response.recommendations) = 1
SummaryLine(k) ==
    IF response.details[k][2].success
    THEN <<"(check) ", response.details[k][1], ": Analise concluida">>
    ELSE <<"(cross) ", response.details[k][1], ": Falha na analise">>

\* C26: in a response of _consolidate_results, success is true exactly when
\* every result in details succeeded, the summary has one line for each
\* result, marked completed when it succeeded and failed when not, and
\* success = true means that every copilot of copilots_used was called and
\* succeeded.  The code does not satisfy the last part.
C26_SuccessMeansAllRan ==
    (Returning /\ copilot_types # <<>>) =>
        /\ response.success = (\A k \in 1..Len(response.details) :
                                  response.details[k][2].success)
        /\ response.summary =
              <<"## Resumo da Analise", "\n", "\n">>
                  \o Join([k \in 1..Len(response.details) |-> SummaryLine(k)], 1)
        /\ response.success =>
              \A name \in Range(response.copilots_used) :
                  /\ invoked[name] > 0
                  /\ \E k \in DetailsOf(name) : response.details[k][2].success

\* What the other of process and aprocess returns for the same request, the
\* same registered copilots and the same outcome of every copilot call.
OtherMethod == IF request.method = "process" THEN "aprocess" ELSE "process"
OtherEntry(i) ==
    IF results_list[i].called
    THEN [results_list[i] EXCEPT
            !.result = PyDict(IF OtherMethod = "process"
                              THEN process_result(results_list[i].returned)
                              ELSE run_copilot_result(results_list[i].returned))]
    ELSE results_list[i]
OtherResponse ==
    IF copilot_types = <<>> THEN NoCopilot(OtherMethod)
    ELSE _consolidate_results(
             DictOf([i \in 1..Len(results_list) |-> OtherEntry(i)], 1, <<>>),
             copilot_types)
SuccessOf(resp) == {<<resp.details[k][1], resp.details[k][2].success>> :
                       k \in 1..Len(resp.details)}

\* C27: for the same request, registered copilots and outcome of every
\* copilot call, process and aprocess return the same success, the same
\* copilots_used and the same details keys with the same success values.
C27_ProcessAndAprocessAgree ==
    Returning =>
        /\ response.success = OtherResponse.success
        /\ response.copilots_used = OtherResponse.copilots_used
        /\ SuccessOf(response) = SuccessOf(OtherResponse)

\* aprocess has returned for two copilots, one call having raised and the
\* other returned, the second ending first.
C27_Witness ==
    /\ request.method = "aprocess"
    /\ Returning
    /\ completed = <<2, 1>>
    /\ Cardinality(RaisedCalls) = 1
    /\ Cardinality(SuccessOf(response)) = 2
    /\ ~response.success

(***************************************************************************)
(* Properties of the token counter.                                        *)
(***************************************************************************)
SplitCall == tcall.name = "split_into_chunks"
SplitDone == SplitCall /\ tcall.done
Drop(seq, n) == SubSeq(seq, n + 1, Len(seq))
RECURSIVE WithoutOverlaps(_, _, _)
WithoutOverlaps(parts, overlap, k) ==
    IF k > Len(parts) THEN <<>>
    ELSE (IF k = 1 THEN parts[k] ELSE Drop(parts[k], overlap))
         \o WithoutOverlaps(parts, overlap, k + 1)

\* C18 as stated: for chunk_size > 0 and 0 <= overlap < chunk_size,
\* split_into_chunks terminates and returns a finite list of chunks, each of
\* at most chunk_size tokens, whose concatenation with the overlaps removed
\* is exactly the input's tokens in order.  The code does not satisfy it: with
\* overlap > 0 and a text of at least one token the loop never ends.
C18_SplitTerminates ==
    /\ [](SplitCall => \A k \in DOMAIN slices : Len(slices[k]) <= tcall.chunk_size)
    /\ [](SplitCall => (<>SplitDone))
    /\ [](SplitDone => /\ Len(chunks) < MaxChunks
                       /\ WithoutOverlaps(slices, tcall.overlap, 1) = tokens)
TruncateCall == tcall.name = "truncate_to_limit"
IsPrefix(p, seq) == Len(p) <= Len(seq) /\ SubSeq(seq, 1, Len(p)) = p
FirstTokens == Slice(tokens, 0, tcall.max_tokens)
RestTokens == SubSeq(tokens, tcall.max_tokens + 1, Len(tokens))
\* the cut after max_tokens tokens falls inside a character: the two sides,
\* decoded apart, are not the text
CutSplitsCharacter ==
    /\ Len(tokens) > tcall.max_tokens
    /\ decode(FirstTokens) \o decode(RestTokens) # decode(tokens)

ReadCall == fcall.name = "read_file"
Target == disk[fcall.file_path]
Missing == fcall.file_path \notin DOMAIN disk
IsFile == ~Missing /\ Target.kind = "file"
AllowListed ==
    \E p \in Paths :
        /\ p.name = fcall.file_path
        /\ (p.suffix \in ALLOWED_EXTENSIONS \/ p.name \in ALLOWED_EXTENSIONS)
Oversize == Target.st_size > MAX_FILE_SIZE
RaisedError(type) == fcall.outcome.raised /\ fcall.outcome.error.type = type

\* C20: read_file returns content only when the path exists, is a regular
\* file, is allow-listed by extension or name and is at most MAX_FILE_SIZE
\* bytes; otherwise it raises the error of the first check that fails, in the
\* order FileNotFoundError (missing), ValueError (not a file), PermissionError
\* (not allow-listed), ValueError (too large).
C20_ReadFileChecks ==
    ReadCall =>
        IF Missing THEN RaisedError("FileNotFoundError")
        ELSE IF ~IsFile THEN RaisedError("ValueError") /\ fcall.outcome.error = NotAFile
        ELSE IF ~AllowListed THEN RaisedError("PermissionError")
        ELSE IF Oversize THEN RaisedError("ValueError") /\ fcall.outcome.error = TooLarge
        ELSE /\ ~fcall.outcome.raised
             /\ IsPrefix(fcall.outcome.value.lines, Target.lines)
C20_Witness ==
    /\ ReadCall
    /\ IsFile
    /\ ~AllowListed
    /\ Oversize
    /\ RaisedError("PermissionError")

====
